---- MODULE Spec2Model ----
(***************************************************************************)
(* Model of the real-time core of GazelleV2:                               *)
(*   - DMXController (src/app/hardware/hardware.py): the 512-slot channel  *)
(*     buffer, its lock, and the frame transmitter;                        *)
(*   - sequence_playback_loop, execute_dmx_event and clear_dmx_event       *)
(*     (src/app/services/playback.py): the event scheduler.                *)
(* Time is counted in tenths of a second.                                  *)
(***************************************************************************)
EXTENDS Integers, Sequences, FiniteSets, TLC

VARIABLES
    dmx_data,       \* DMXController.dmx_data: the bytearray, as a sequence
    lock,           \* DMXController.lock: "free" or the thread holding it
    cpc,            \* caller thread: "idle" or "set_channels" (inside the loop)
    channel_dict,   \* set_channels' argument: <<channel, value>> pairs in dict order
    item,           \* set_channels' position in channel_dict.items()
    ret,            \* the value the last get_channel call returned
    serial_open,    \* serial_port is not None and serial_port.is_open
    txpc,           \* transmit thread: "idle", "break" or "data"
    packet,         \* _send_dmx_frame's local packet
    wire,           \* the last data packet written to the serial port
    last,           \* history: the last channel-buffer call and its arguments
    batch_changed,  \* history: channels the running batch has changed so far
    snap,           \* history: dmx_data at the instant of the locked copy
    frame_torn,     \* history: the last copy saw a half-applied batch
    raced,          \* history: the buffer changed between the copy and the write
    sequence,       \* sequence.get_events(): the event list as stored
    start_time_offset,  \* sequence_playback_loop's argument
    is_playing,     \* playback.is_playing
    now,            \* time.time()
    ppc,            \* scheduling thread: its position in sequence_playback_loop
    events,         \* the sorted local copy of the event list
    event_index,    \* index (from 0) of the next event to fire
    active_events,  \* fired, not yet cleared: indices (from 0) into events
    start_time,     \* time.time() when the loop started
    current_time,   \* the elapsed time computed by the running iteration
    clear_pos,      \* position (from 0) of the for loop over active_events
    events_to_remove,   \* the events the running iteration cleared
    order,          \* history: order[i] is the source position of events[i]
    fired,          \* history: the indices fired, in firing order
    cleared,        \* history: the indices cleared, in clearing order
    fire_addrs,     \* history: per fired index, the addresses its firing wrote
    play_last,      \* history: the last step of the scheduling thread
    audio_player,   \* the AudioPlayer object: its fields
    music,          \* pygame.mixer.music: what the output device is doing
    audio_last,     \* history: the last AudioPlayer call, its argument and result
    paused_position,    \* history: get_position() at the moment of the last pause
    current_sequence,   \* playback.current_sequence: the sequence's id, 0 for None
    apc,            \* calling thread: "idle" or its position in a playback call
    api_args,       \* play_sequence's arguments while the call runs
    wake_time,      \* when stop_playback's time.sleep(0.1) returns
    parked,         \* the locals of the other scheduling thread while it waits
    run,            \* history: the play_sequence call that started this loop
    session,        \* history: how many play_sequence calls started a loop
    api_last,       \* history: the last playback call that returned, and how many did
    playback_lock,  \* playback.playback_lock: "free" or "held"
    current_playlist_index,     \* playback.current_playlist_index
    current_sequence_index,     \* playback.current_sequence_index
    shuffled_sequence_order,    \* playback.shuffled_sequence_order
    active_playlists,   \* Playlist.query.filter_by(is_active=True).all()
    tpc,            \* the trigger thread holding the lock: its position
    selected,       \* history: the sequence ids the triggers selected, in order
    trigger_last,   \* history: the last trigger call, its outcome, and how many came
    serial_port,    \* DMXController.serial_port: "Serial", or "None"
    running,        \* DMXController.running
    thread,         \* DMXController.thread: the number of the thread, 0 for None
    output_loops,   \* the _output_loop threads started, each with its position
    dpc,            \* the thread calling start and stop: "idle" or "join"
    join_deadline,  \* when stop's thread.join(timeout=1.0) gives up
    ctl_last,       \* history: the last start or stop that returned, and how many did
    hpc,            \* a request thread of the web server: "idle" or inside stop_playback
    http_wake,      \* when the time.sleep(0.1) of that thread's stop_playback returns
    http_last,      \* history: the last request served, and how many were
    pin,            \* GPIO.input(BUTTON_PIN): "HIGH", or "LOW" while the button is pressed
    bpc,            \* button thread: its position in button_handler
    button_was_high,    \* button_handler's local button_was_high
    button_is_high,     \* button_handler's local button_is_high
    button_time,    \* button_handler's local current_time
    last_trigger_time,  \* playback.last_trigger_time
    button_clock,   \* time.time() as the button thread reads it, in hundredths of a second
    presses,        \* history: how many times the input has gone from high to low
    launches        \* history: per trigger thread started, the press and the time read

bufVars == <<dmx_data, lock>>
callerVars == <<cpc, channel_dict, item, ret>>
txVars == <<serial_open, txpc, packet, wire>>
histVars == <<last, batch_changed, snap, frame_torn, raced>>
dmxVars == <<bufVars, callerVars, txVars, histVars>>
loopVars == <<sequence, start_time_offset, is_playing, now, ppc, events,
              event_index, active_events, start_time, current_time, clear_pos,
              events_to_remove>>
playHist == <<order, fired, cleared, fire_addrs, play_last>>
playVars == <<loopVars, playHist>>
audioVars == <<audio_player, music, audio_last, paused_position>>
apiVars == <<current_sequence, apc, api_args, wake_time>>
cursorVars == <<current_playlist_index, current_sequence_index,
                shuffled_sequence_order>>
triggerVars == <<playback_lock, cursorVars, active_playlists, tpc, selected,
                 trigger_last>>
ctlVars == <<serial_port, running, thread, output_loops, dpc, join_deadline,
             ctl_last>>
httpVars == <<hpc, http_wake, http_last>>
buttonVars == <<pin, bpc, button_was_high, button_is_high, button_time,
                last_trigger_time, button_clock, presses, launches>>
extraVars == <<httpVars, buttonVars>>
sideVars == <<triggerVars, ctlVars, extraVars>>
coreVars == <<apiVars, parked, run, session, api_last, triggerVars, ctlVars>>
sessionVars == <<apiVars, parked, run, session, api_last, sideVars>>
restVars == <<audioVars, sessionVars>>

-----------------------------------------------------------------------------
(* Program constants *)

DMX_CHANNELS == 512
DMX_MAX_VALUE == 255
START_CODE == 0

(* Bounds of the inputs *)

NearAddrs == 2      \* channels 1..NearAddrs are written at the low end
MaxBatch == 2       \* longest channel_dict of the buffer specification
TxAddrs == 2        \* channels 1..TxAddrs are written while transmitting

Max(a, b) == IF a >= b THEN a ELSE b
Min(a, b) == IF a <= b THEN a ELSE b

-----------------------------------------------------------------------------
(* bytearray, indexed from 0 as in Python *)

Bytearray(n) == [i \in 1..n |-> 0]
ByteAt(b, i) == b[i + 1]
ByteStore(b, i, x) == [b EXCEPT ![i + 1] = x]

(* max(0, min(255, int(value))) for an integer value *)
Clamp_NoFloor(value) == Min(DMX_MAX_VALUE, value)
Clamp(value) == Max(0, Min(DMX_MAX_VALUE, value))

InRange(channel) == 1 <= channel /\ channel <= DMX_CHANNELS

(* the body of set_channel and of one turn of set_channels' loop *)
StoreChannel_IndexFromOne(data, channel, value) ==
    IF InRange(channel) /\ channel < DMX_CHANNELS
    THEN ByteStore(data, channel, Clamp(value))
    ELSE data
StoreChannel(data, channel, value) ==
    IF InRange(channel)
    THEN ByteStore(data, channel - 1, Clamp(value))
    ELSE data

(* the value get_channel returns *)
ReadChannel(data, channel) ==
    IF InRange(channel) THEN ByteAt(data, channel - 1) ELSE 0

NoCall == [op |-> "none", channel |-> 0, value |-> 0, changed |-> FALSE]
Call(op, channel, value, changed) ==
    [op |-> op, channel |-> channel, value |-> value, changed |-> changed]

-----------------------------------------------------------------------------
(* DMXController: the channel buffer *)

Raced(data) == raced \/ (txpc # "idle" /\ data # dmx_data)

set_channel(channel, value) ==
    /\ cpc = "idle"
    /\ InRange(channel) => lock = "free"
    /\ dmx_data' = StoreChannel(dmx_data, channel, value)
    /\ last' = Call("set_channel", channel, value, dmx_data' # dmx_data)
    /\ raced' = Raced(dmx_data')
    /\ UNCHANGED <<lock, callerVars, txVars, batch_changed, snap, frame_torn,
                   playVars, restVars>>

get_channel(channel) ==
    /\ cpc = "idle"
    /\ InRange(channel) => lock = "free"
    /\ ret' = ReadChannel(dmx_data, channel)
    /\ last' = Call("get_channel", channel, ret', FALSE)
    /\ UNCHANGED <<bufVars, cpc, channel_dict, item, txVars, batch_changed,
                   snap, frame_torn, raced, playVars, restVars>>

set_channels_enter(batch) ==
    /\ cpc = "idle"
    /\ lock = "free"
    /\ lock' = "caller"
    /\ cpc' = "set_channels"
    /\ channel_dict' = batch
    /\ item' = 1
    /\ batch_changed' = {}
    /\ last' = Call("set_channels", 0, 0, FALSE)
    /\ UNCHANGED <<dmx_data, ret, txVars, snap, frame_torn, raced, playVars, restVars>>

set_channels_item ==
    /\ cpc = "set_channels"
    /\ item <= Len(channel_dict)
    /\ LET channel == channel_dict[item][1]
           value == channel_dict[item][2]
       IN  /\ dmx_data' = StoreChannel(dmx_data, channel, value)
           /\ batch_changed' = IF dmx_data' # dmx_data
                               THEN batch_changed \cup {channel}
                               ELSE batch_changed
           /\ last' = Call("set_channels", channel, value, dmx_data' # dmx_data)
    /\ raced' = Raced(dmx_data')
    /\ item' = item + 1
    /\ UNCHANGED <<lock, cpc, channel_dict, ret, txVars, snap, frame_torn,
                   playVars, restVars>>

set_channels_exit ==
    /\ cpc = "set_channels"
    /\ item > Len(channel_dict)
    /\ lock' = "free"
    /\ cpc' = "idle"
    /\ channel_dict' = <<>>
    /\ item' = 0
    /\ batch_changed' = {}
    /\ UNCHANGED <<dmx_data, ret, txVars, last, snap, frame_torn, raced,
                   playVars, restVars>>

ClearedData_NotAssigned == dmx_data
ClearedData == Bytearray(DMX_CHANNELS)

clear_all ==
    /\ cpc = "idle"
    /\ lock = "free"
    /\ dmx_data' = ClearedData
    /\ last' = Call("clear_all", 0, 0, dmx_data' # dmx_data)
    /\ raced' = Raced(dmx_data')
    /\ UNCHANGED <<lock, callerVars, txVars, batch_changed, snap, frame_torn,
                   playVars, restVars>>

-----------------------------------------------------------------------------
(* DMXController: one tick of the transmit loop, _send_dmx_frame *)

(* the running batch has changed a channel and has yet to change another *)
HalfApplied ==
    /\ cpc = "set_channels"
    /\ batch_changed # {}
    /\ \E j \in item..Len(channel_dict) :
          StoreChannel(dmx_data, channel_dict[j][1], channel_dict[j][2]) # dmx_data

BuildPacket(data) == <<START_CODE>> \o data

frame_lock_Missing == TRUE
frame_lock == lock = "free"

send_dmx_frame_no_port ==
    /\ txpc = "idle"
    /\ ~serial_open
    /\ UNCHANGED <<dmxVars, playVars, restVars>>

send_dmx_frame_copy ==
    /\ txpc = "idle"
    /\ serial_open
    /\ frame_lock
    /\ packet' = BuildPacket(dmx_data)
    /\ snap' = dmx_data
    /\ frame_torn' = HalfApplied
    /\ raced' = FALSE
    /\ txpc' = "break"
    /\ UNCHANGED <<bufVars, callerVars, serial_open, wire, last, batch_changed,
                   playVars, restVars>>

send_dmx_frame_break ==
    /\ txpc = "break"
    /\ txpc' = "data"
    /\ UNCHANGED <<bufVars, callerVars, serial_open, packet, wire, histVars,
                   playVars, restVars>>

WrittenPacket_BuiltLate == BuildPacket(dmx_data)
WrittenPacket == packet

send_dmx_frame_data ==
    /\ txpc = "data"
    /\ wire' = WrittenPacket
    /\ packet' = <<>>
    /\ txpc' = "idle"
    /\ UNCHANGED <<bufVars, callerVars, serial_open, histVars, playVars, restVars>>

-----------------------------------------------------------------------------
(* DMXController: start, stop and the _output_loop threads *)

JOIN_TIMEOUT == 10      \* self.thread.join(timeout=1.0)
MaxCtlCalls == 3        \* start and stop calls

Controlled(op) == [op |-> op, calls |-> ctl_last.calls + 1]

(* if not self.running and self.serial_port *)
CanStart_NoPort == ~running
CanStart == ~running /\ serial_port # "None"

(* thread.is_alive() *)
IsAlive(t) == t # 0 /\ output_loops[t] # "done"

(* lines 70-71: the port, if there is one and it is open, is closed *)
ClosePort == serial_open' = FALSE

dmx_start ==
    /\ dpc = "idle"
    /\ ctl_last.calls < MaxCtlCalls
    /\ IF CanStart
       THEN /\ running' = TRUE
            /\ output_loops' = Append(output_loops, "while")
            /\ thread' = Len(output_loops')
       ELSE UNCHANGED <<running, output_loops, thread>>
    /\ ctl_last' = Controlled("start")
    /\ UNCHANGED <<bufVars, callerVars, txVars, histVars, playVars, audioVars,
                   apiVars, parked, run, session, api_last, triggerVars, extraVars,
                   serial_port, dpc, join_deadline>>

(* lines 67-69: running goes False; a live thread is joined *)
dmx_stop_enter ==
    /\ dpc = "idle"
    /\ ctl_last.calls < MaxCtlCalls
    /\ running' = FALSE
    /\ IF IsAlive(thread)
       THEN /\ dpc' = "join"
            /\ join_deadline' = now + JOIN_TIMEOUT
            /\ UNCHANGED <<serial_open, ctl_last>>
       ELSE /\ ClosePort
            /\ ctl_last' = Controlled("stop")
            /\ UNCHANGED <<dpc, join_deadline>>
    /\ UNCHANGED <<bufVars, callerVars, txpc, packet, wire, histVars, playVars,
                   audioVars, apiVars, parked, run, session, api_last,
                   triggerVars, extraVars, serial_port, thread, output_loops>>

(* lines 69-72: join returns, the thread having ended or the second being
   over; the port is closed *)
dmx_stop_return ==
    /\ dpc = "join"
    /\ ~IsAlive(thread) \/ now >= join_deadline
    /\ ClosePort
    /\ dpc' = "idle"
    /\ join_deadline' = 0
    /\ ctl_last' = Controlled("stop")
    /\ UNCHANGED <<bufVars, callerVars, txpc, packet, wire, histVars, playVars,
                   audioVars, apiVars, parked, run, session, api_last,
                   triggerVars, extraVars, serial_port, running, thread, output_loops>>

(* line 103: while self.running *)
output_loop_test(t) ==
    /\ output_loops[t] = "while"
    /\ output_loops' = [output_loops EXCEPT ![t] = IF running THEN "frame" ELSE "done"]
    /\ UNCHANGED <<bufVars, callerVars, txVars, histVars, playVars, audioVars,
                   apiVars, parked, run, session, api_last, triggerVars, extraVars,
                   serial_port, running, thread, dpc, join_deadline, ctl_last>>

(* lines 104-115: one frame, _send_dmx_frame as a whole, and the sleep *)
output_loop_frame(t) ==
    /\ output_loops[t] = "frame"
    /\ IF serial_port # "None" /\ serial_open
       THEN /\ frame_lock
            /\ wire' = BuildPacket(dmx_data)
            /\ snap' = dmx_data
       ELSE UNCHANGED <<wire, snap>>
    /\ output_loops' = [output_loops EXCEPT ![t] = "while"]
    /\ UNCHANGED <<bufVars, callerVars, serial_open, txpc, packet, last,
                   batch_changed, frame_torn, raced, playVars, audioVars,
                   apiVars, parked, run, session, api_last, triggerVars, extraVars,
                   serial_port, running, thread, dpc, join_deadline, ctl_last>>

(* the second that join waits goes by *)
join_times_out ==
    /\ dpc = "join"
    /\ now < join_deadline
    /\ now' = join_deadline
    /\ UNCHANGED <<dmxVars, restVars, sequence, start_time_offset, is_playing,
                   ppc, events, event_index, active_events, start_time,
                   current_time, clear_pos, events_to_remove, playHist>>

-----------------------------------------------------------------------------
(* AudioPlayer, over pygame.mixer.music *)

(* AudioPlayer(): the fields __init__ sets; "None" is Python's None *)
NewAudioPlayer ==
    [current_song |-> "None", is_playing |-> FALSE, start_time |-> 0,
     pause_time |-> 0, total_pause_duration |-> 0, seek_offset |-> 0]

(* the output device before any music is loaded *)
NoMusic == [state |-> "stopped", start |-> 0]

(* what a method call leaves behind: the object, the device, the result *)
Outcome(self, device, result) == [player |-> self, music |-> device, ret |-> result]

(* pygame.mixer.music.play(start=...), pause(), unpause(), stop() *)
MusicPlay(device, start) == [state |-> "playing", start |-> start]
MusicPause(device) ==
    IF device.state = "playing" THEN [device EXCEPT !.state = "paused"] ELSE device
MusicUnpause(device) ==
    IF device.state = "paused" THEN [device EXCEPT !.state = "playing"] ELSE device
MusicStop(device) == [device EXCEPT !.state = "stopped"]

(* load_song: loaded says whether pygame.mixer.music.load returned or raised;
   a successful load stops the music that was playing *)
LoadSong(self, device, file_path, loaded) ==
    IF loaded
    THEN Outcome([self EXCEPT !.current_song = file_path], MusicStop(device), "True")
    ELSE Outcome(self, device, "False")

(* the assignments of play after pygame.mixer.music.play returned *)
Started(self, start_position, t) ==
    [self EXCEPT !.is_playing = TRUE, !.start_time = t,
                 !.total_pause_duration = 0, !.seek_offset = start_position]

(* play: started says whether pygame.mixer.music.play returned or raised *)
Play(self, device, start_position, t, started) ==
    IF self.current_song = "None" THEN Outcome(self, device, "False")
    ELSE IF started
    THEN Outcome(Started(self, start_position, t),
                 MusicPlay(device, start_position), "True")
    ELSE Outcome(self, device, "raised")

Pause(self, device, t) ==
    IF self.is_playing
    THEN Outcome([self EXCEPT !.is_playing = FALSE, !.pause_time = t],
                 MusicPause(device), "None")
    ELSE Outcome(self, device, "None")

(* total_pause_duration += time.time() - pause_time *)
Accumulated_NotAdded(self, t) == self.total_pause_duration
Accumulated(self, t) == self.total_pause_duration + (t - self.pause_time)

Resume(self, device, t) ==
    IF ~self.is_playing /\ self.pause_time > 0
    THEN Outcome([self EXCEPT !.is_playing = TRUE,
                              !.total_pause_duration = Accumulated(self, t),
                              !.pause_time = 0],
                 MusicUnpause(device), "None")
    ELSE Outcome(self, device, "None")

StoppedPlayer_KeepsOffset(self) ==
    [self EXCEPT !.is_playing = FALSE, !.start_time = 0, !.pause_time = 0,
                 !.total_pause_duration = 0]
StoppedPlayer(self) ==
    [self EXCEPT !.is_playing = FALSE, !.start_time = 0, !.pause_time = 0,
                 !.total_pause_duration = 0, !.seek_offset = 0]

Stop(self, device) == Outcome(StoppedPlayer(self), MusicStop(device), "None")

(* the assignments of seek after the restart at the new position *)
Restarted_KeepsPauses(self, position, t) ==
    [self EXCEPT !.is_playing = TRUE, !.start_time = t, !.seek_offset = position]
Restarted(self, position, t) ==
    [self EXCEPT !.is_playing = TRUE, !.start_time = t,
                 !.total_pause_duration = 0, !.seek_offset = position]

(* seek: restarted says whether the play at the new position returned or
   raised, resumed the same of the play at the old offset that follows a
   failed restart *)
Seek(self, device, position, t, restarted, resumed) ==
    IF self.current_song = "None" THEN Outcome(self, device, "False")
    ELSE IF self.is_playing
    THEN IF restarted
         THEN Outcome(Restarted(self, position, t), MusicPlay(device, position),
                      "True")
         ELSE LET again == Play(self, MusicStop(device), self.seek_offset, t, resumed)
              IN  IF again.ret = "raised" THEN again
                  ELSE Outcome(again.player, again.music, "False")
    ELSE Outcome([self EXCEPT !.seek_offset = position], device, "True")

(* get_position at time t *)
GetPosition(self, t) ==
    IF self.is_playing /\ self.start_time # 0
    THEN Max(0, (t - self.start_time - self.total_pause_duration) + self.seek_offset)
    ELSE IF self.pause_time > 0
    THEN Max(0, (self.pause_time - self.start_time - self.total_pause_duration)
                   + self.seek_offset)
    ELSE self.seek_offset

AudioCall(op, arg, result, position) ==
    [op |-> op, arg |-> arg, ret |-> result, position |-> position]

(* the calls on the AudioPlayer, each at the time now *)
AudioStep(out, op, arg) ==
    /\ audio_player' = out.player
    /\ music' = out.music
    /\ audio_last' = AudioCall(op, arg, out.ret, 0)

load_song(file_path, loaded) ==
    /\ AudioStep(LoadSong(audio_player, music, file_path, loaded), "load_song", 0)
    /\ UNCHANGED <<paused_position, dmxVars, playVars, sessionVars>>

play(start_position, started) ==
    /\ AudioStep(Play(audio_player, music, start_position, now, started),
                 "play", start_position)
    /\ UNCHANGED <<paused_position, dmxVars, playVars, sessionVars>>

(* the position the player reports as a pause begins *)
PausedPosition ==
    IF audio_player.is_playing THEN GetPosition(audio_player, now)
    ELSE paused_position

pause ==
    /\ AudioStep(Pause(audio_player, music, now), "pause", 0)
    /\ paused_position' = PausedPosition
    /\ UNCHANGED <<dmxVars, playVars, sessionVars>>

resume ==
    /\ AudioStep(Resume(audio_player, music, now), "resume", 0)
    /\ UNCHANGED <<paused_position, dmxVars, playVars, sessionVars>>

stop ==
    /\ AudioStep(Stop(audio_player, music), "stop", 0)
    /\ UNCHANGED <<paused_position, dmxVars, playVars, sessionVars>>

seek(position, restarted, resumed) ==
    /\ AudioStep(Seek(audio_player, music, position, now, restarted, resumed),
                 "seek", position)
    /\ UNCHANGED <<paused_position, dmxVars, playVars, sessionVars>>

get_position ==
    /\ audio_last' = AudioCall("get_position", 0, "int", GetPosition(audio_player, now))
    /\ UNCHANGED <<audio_player, music, paused_position, dmxVars, playVars, sessionVars>>

(* time.time() moves on between two calls *)
time_passes(limit) ==
    /\ now < limit
    /\ now' = now + 1
    /\ UNCHANGED <<dmxVars, restVars, sequence, start_time_offset, is_playing,
                   ppc, events, event_index, active_events, start_time,
                   current_time, clear_pos, events_to_remove, playHist>>

-----------------------------------------------------------------------------
(* Events, patched devices: the data the persistence layer supplies *)

(* dict.get(key, default) *)
Get(d, key, default) == IF key \in DOMAIN d THEN d[key] ELSE default

(* list[i], indexed from 0 as in Python *)
ListAt(l, i) == l[i + 1]

(* init_playback(dmx_ctrl, audio_ctrl, app) has run *)
flask_app == TRUE

(* PatchedDevice rows with their Device's channel list: id -> row *)
PatchedDevices ==
    (1 :> [start_address |-> 1, channels |-> <<"dimmer_channel">>]) @@
    (2 :> [start_address |-> 2,
           channels |-> <<"dimmer_channel", "red_channel", "green_channel",
                          "blue_channel", "white_channel">>]) @@
    (3 :> [start_address |-> 510,
           channels |-> <<"strobe", "pan", "dimmer_channel", "tilt">>])

(* the event dicts sequences are made of; time and duration in tenths of a second *)
EventPool == <<
    [device_id |-> 1, type |-> "dimmer", value |-> 100, time |-> 0, duration |-> 10],
    [device_id |-> 2, type |-> "dimmer", value |-> 50, time |-> 5, duration |-> 10],
    [device_id |-> 1, type |-> "dimmer", value |-> 30, time |-> 5],
    [device_id |-> 2, type |-> "color",
     color |-> [hex |-> <<"#", "F", "F", "8", "0", "0", "0">>],
     time |-> 0, duration |-> 5],
    [device_id |-> 3, type |-> "position", value |-> [pan |-> 10, tilt |-> 20],
     time |-> 3, duration |-> 5],
    [device_id |-> 9, type |-> "dimmer", value |-> 80, duration |-> 0],
    [device_id |-> 2, type |-> "color",
     color |-> [r |-> 10, g |-> 20, b |-> 30, w |-> 40], time |-> 5, duration |-> 5],
    [device_id |-> 2, type |-> "color",
     color |-> [hex |-> <<"#", "0", "a", "7", "F", "1", "0">>],
     time |-> 6, duration |-> 5],
    [device_id |-> 2, type |-> "color", color |-> [hex |-> <<"r", "e", "d">>],
     time |-> 3, duration |-> 5] >>

StartOffsets == {0, 5, 6}

MaxEvents == 2      \* longest event list
MaxTime == 27       \* the clock stops here
MaxLag == 2         \* longest time between two iterations of the loop

DEFAULT_DURATION == 20

EventTime(event) == Get(event, "time", 0)
EventDuration(event) == Get(event, "duration", DEFAULT_DURATION)

(* events.sort(key=lambda x: x.get('time', 0)): a stable sort; the result is
   the list of source positions (from 1) in sorted order *)
InsertByTime(seq, sorted, k) ==
    LET p == Cardinality({j \in 1..Len(sorted) :
                            EventTime(seq[sorted[j]]) <= EventTime(seq[k])})
    IN  SubSeq(sorted, 1, p) \o <<k>> \o SubSeq(sorted, p + 1, Len(sorted))

RECURSIVE SortPrefix(_, _)
SortPrefix(seq, n) ==
    IF n = 0 THEN <<>> ELSE InsertByTime(seq, SortPrefix(seq, n - 1), n)

SortOrder_NotSorted(seq) == [i \in 1..Len(seq) |-> i]
SortOrder(seq) == SortPrefix(seq, Len(seq))

(* the test of the skip loop: the event is before the start offset *)
BeforeOffset_Inclusive(event, offset) == EventTime(event) <= offset
BeforeOffset(event, offset) == EventTime(event) < offset

RECURSIVE SkipFrom(_, _, _)
SkipFrom(evs, i, offset) ==
    IF i < Len(evs) /\ BeforeOffset(ListAt(evs, i), offset)
    THEN SkipFrom(evs, i + 1, offset)
    ELSE i

(* the test of the clearing loop: current_time >= event_end_time *)
Expired_AtStart(event, t) == t >= EventTime(event)
Expired(event, t) == t >= EventTime(event) + EventDuration(event)

-----------------------------------------------------------------------------
(* execute_dmx_event and clear_dmx_event: the set_channel calls they make *)

TruncDiv(a, b) == IF a >= 0 THEN a \div b ELSE 0 - ((0 - a) \div b)

(* int(value * 255 / 100) *)
DimmerValue_NotScaled(value) == value
DimmerValue(value) == TruncDiv(value * 255, 100)

HexDigit ==
    ("0" :> 0) @@ ("1" :> 1) @@ ("2" :> 2) @@ ("3" :> 3) @@ ("4" :> 4) @@
    ("5" :> 5) @@ ("6" :> 6) @@ ("7" :> 7) @@ ("8" :> 8) @@ ("9" :> 9) @@
    ("A" :> 10) @@ ("B" :> 11) @@ ("C" :> 12) @@ ("D" :> 13) @@ ("E" :> 14) @@
    ("F" :> 15) @@ ("a" :> 10) @@ ("b" :> 11) @@ ("c" :> 12) @@ ("d" :> 13) @@
    ("e" :> 14) @@ ("f" :> 15)

(* str.lstrip('#') and s[a:b] on a string held as a sequence of characters *)
RECURSIVE LStripHash(_)
LStripHash(s) == IF s # <<>> /\ Head(s) = "#" THEN LStripHash(Tail(s)) ELSE s
Slice_OneChar(s, a, b) == SubSeq(s, a + 1, a + 1)
Slice(s, a, b) == SubSeq(s, a + 1, Min(b, Len(s)))

(* int(s, 16); -1 stands for the ValueError *)
RECURSIVE HexInt(_)
HexInt(s) ==
    IF s = <<>> \/ \E i \in 1..Len(s) : s[i] \notin DOMAIN HexDigit THEN -1
    ELSE IF Len(s) = 1 THEN HexDigit[s[1]]
    ELSE 16 * HexInt(SubSeq(s, 1, Len(s) - 1)) + HexDigit[s[Len(s)]]

(* a color payload is a dict, or a hex string held as [hex |-> characters] *)
IsStr(color_value) == "hex" \in DOMAIN color_value
HexColor(color_value) ==
    LET hex_color == LStripHash(color_value.hex)
    IN  [r |-> HexInt(Slice(hex_color, 0, 2)),
         g |-> HexInt(Slice(hex_color, 2, 4)),
         b |-> HexInt(Slice(hex_color, 4, 6))]
Color(event) ==
    LET color_value == Get(event, "color", <<>>)
    IN  IF IsStr(color_value) THEN HexColor(color_value) ELSE color_value

ColorKey ==
    ("red_channel" :> "r") @@ ("green_channel" :> "g") @@
    ("blue_channel" :> "b") @@ ("white_channel" :> "w")

(* the body of execute_dmx_event's loop for one channel: the calls it makes *)
ExecuteChannel(event, channel_type, dmx_address) ==
    LET event_type == Get(event, "type", "None")
    IN  IF event_type = "dimmer" /\ channel_type = "dimmer_channel"
        THEN << <<dmx_address, DimmerValue(Get(event, "value", 0))>> >>
        ELSE IF event_type = "color"
        THEN IF channel_type \in DOMAIN ColorKey
             THEN << <<dmx_address, Get(Color(event), ColorKey[channel_type], 0)>> >>
             ELSE <<>>
        ELSE IF event_type = "position" /\ channel_type \in {"pan", "tilt"}
        THEN << <<dmx_address, Get(event.value, channel_type, 0)>> >>
        ELSE <<>>

(* the loop raises: a hex string int() rejects, or a position event whose
   value is missing (0 has no get) *)
ExecuteRaises_Unpatched(event) ==
    Get(event, "device_id", 0) \notin DOMAIN PatchedDevices
ExecuteRaises(event) ==
    /\ flask_app
    /\ Get(event, "device_id", 0) \in DOMAIN PatchedDevices
    /\ LET channels == PatchedDevices[event.device_id].channels
           event_type == Get(event, "type", "None")
       IN  \/ /\ event_type = "color"
              /\ channels # <<>>
              /\ IsStr(Get(event, "color", <<>>))
              /\ \E k \in {"r", "g", "b"} : Color(event)[k] < 0
           \/ /\ event_type = "position"
              /\ \E i \in 1..Len(channels) : channels[i] \in {"pan", "tilt"}
              /\ "value" \notin DOMAIN event

(* for i, channel in enumerate(channels), from channel i on *)
RECURSIVE ExecuteChannels(_, _, _)
ExecuteChannels(event, patched_device, i) ==
    IF i >= Len(patched_device.channels) THEN <<>>
    ELSE ExecuteChannel(event, ListAt(patched_device.channels, i),
                        patched_device.start_address + i)
         \o ExecuteChannels(event, patched_device, i + 1)

ExecuteCalls(event) ==
    IF ~flask_app THEN <<>>
    ELSE IF Get(event, "device_id", 0) \notin DOMAIN PatchedDevices THEN <<>>
    ELSE ExecuteChannels(event, PatchedDevices[event.device_id], 0)

(* the body of clear_dmx_event's loop for one channel *)
ClearChannel_AnyType(event, channel_type, dmx_address) == << <<dmx_address, 0>> >>
ClearChannel(event, channel_type, dmx_address) ==
    LET event_type == Get(event, "type", "None")
    IN  IF event_type = "dimmer" /\ channel_type = "dimmer_channel"
        THEN << <<dmx_address, 0>> >>
        ELSE IF event_type = "color"
        THEN IF channel_type \in DOMAIN ColorKey
             THEN << <<dmx_address, 0>> >> ELSE <<>>
        ELSE IF event_type = "position"
        THEN IF channel_type \in {"pan", "tilt"}
             THEN << <<dmx_address, 0>> >> ELSE <<>>
        ELSE <<>>

RECURSIVE ClearChannels(_, _, _)
ClearChannels(event, patched_device, i) ==
    IF i >= Len(patched_device.channels) THEN <<>>
    ELSE ClearChannel(event, ListAt(patched_device.channels, i),
                      patched_device.start_address + i)
         \o ClearChannels(event, patched_device, i + 1)

ClearCalls(event) ==
    IF ~flask_app THEN <<>>
    ELSE IF Get(event, "device_id", 0) \notin DOMAIN PatchedDevices THEN <<>>
    ELSE ClearChannels(event, PatchedDevices[event.device_id], 0)

(* dmx_controller.set_channel(address, value) for each call in turn *)
RECURSIVE ApplyCalls(_, _)
ApplyCalls(data, calls) ==
    IF calls = <<>> THEN data
    ELSE ApplyCalls(StoreChannel(data, calls[1][1], calls[1][2]), Tail(calls))

(* the addresses of the buffer the calls write *)
WrittenAddrs(calls) == {calls[i][1] : i \in {j \in 1..Len(calls) : InRange(calls[j][1])}}

-----------------------------------------------------------------------------
(* sequence_playback_loop *)

Step(op, pos) == [op |-> op, pos |-> pos]

(* dict == dict; the type is compared first, so that the payloads compared
   are of one kind *)
DictEq(a, b) ==
    /\ Get(a, "type", "None") = Get(b, "type", "None")
    /\ DOMAIN a = DOMAIN b
    /\ \A k \in DOMAIN a : a[k] = b[k]

(* active_events.remove(event): the first entry equal to the event goes *)
RECURSIVE RemoveEvent(_, _)
RemoveEvent(active, pos) ==
    IF active = <<>> THEN <<>>
    ELSE IF DictEq(ListAt(events, Head(active)), ListAt(events, pos)) THEN Tail(active)
    ELSE <<Head(active)>> \o RemoveEvent(Tail(active), pos)

RECURSIVE RemoveAll(_, _)
RemoveAll(active, remove) ==
    IF remove = <<>> THEN active
    ELSE RemoveAll(RemoveEvent(active, Head(remove)), Tail(remove))

(* lines 210-223: sort, take the start time, skip what is before the offset *)
loop_begin ==
    /\ ppc = "begin"
    /\ order' = SortOrder(sequence)
    /\ events' = [i \in 1..Len(sequence) |-> sequence[order'[i]]]
    /\ start_time' = now
    /\ event_index' = SkipFrom(events', 0, start_time_offset)
    /\ active_events' = <<>>
    /\ ppc' = "while"
    /\ play_last' = Step("begin", event_index')
    /\ UNCHANGED <<dmxVars, restVars, sequence, start_time_offset, is_playing, now,
                   current_time, clear_pos, events_to_remove, fired, cleared,
                   fire_addrs>>

(* line 225-226: the loop condition holds, the iteration takes the time *)
loop_iterate ==
    /\ ppc = "while"
    /\ is_playing /\ (event_index < Len(events) \/ active_events # <<>>)
    /\ current_time' = now - start_time + start_time_offset
    /\ ppc' = "fire"
    /\ play_last' = Step("iterate", 0)
    /\ UNCHANGED <<dmxVars, restVars, sequence, start_time_offset, is_playing, now, events,
                   event_index, active_events, start_time, clear_pos,
                   events_to_remove, order, fired, cleared, fire_addrs>>

(* line 225, 260: the loop condition fails *)
loop_exit ==
    /\ ppc = "while"
    /\ ~(is_playing /\ (event_index < Len(events) \/ active_events # <<>>))
    /\ ppc' = "done"
    /\ play_last' = Step("exit", 0)
    /\ UNCHANGED <<dmxVars, restVars, sequence, start_time_offset, is_playing, now, events,
                   event_index, active_events, start_time, current_time,
                   clear_pos, events_to_remove, order, fired, cleared, fire_addrs>>

Due(event) == current_time >= EventTime(event)

(* lines 229-237: the next event is due; execute_dmx_event raises or returns *)
loop_fire ==
    /\ ppc = "fire"
    /\ event_index < Len(events)
    /\ Due(ListAt(events, event_index))
    /\ LET event == ListAt(events, event_index)
           calls == ExecuteCalls(event)
       IN  IF ExecuteRaises(event)
           THEN /\ ppc' = "raised"
                /\ play_last' = Step("raise", event_index)
                /\ UNCHANGED <<dmx_data, active_events, event_index, fired,
                               fire_addrs>>
           ELSE /\ WrittenAddrs(calls) # {} => lock = "free"
                /\ dmx_data' = ApplyCalls(dmx_data, calls)
                /\ active_events' = Append(active_events, event_index)
                /\ event_index' = event_index + 1
                /\ fired' = Append(fired, event_index)
                /\ fire_addrs' = Append(fire_addrs, WrittenAddrs(calls))
                /\ play_last' = Step("fire", event_index)
                /\ ppc' = "fire"
    /\ UNCHANGED <<lock, callerVars, txVars, histVars, restVars, sequence,
                   start_time_offset, is_playing, now, events, start_time,
                   current_time, clear_pos, events_to_remove, order, cleared>>

(* lines 229-242: no event is due; the clearing loop starts *)
loop_fire_end ==
    /\ ppc = "fire"
    /\ ~(event_index < Len(events) /\ Due(ListAt(events, event_index)))
    /\ events_to_remove' = <<>>
    /\ clear_pos' = 0
    /\ ppc' = "clear"
    /\ play_last' = Step("fire_end", 0)
    /\ UNCHANGED <<dmxVars, restVars, sequence, start_time_offset, is_playing, now, events,
                   event_index, active_events, start_time, current_time, order,
                   fired, cleared, fire_addrs>>

(* lines 243-252: one turn of the for loop over active_events *)
loop_clear ==
    /\ ppc = "clear"
    /\ clear_pos < Len(active_events)
    /\ LET pos == ListAt(active_events, clear_pos)
           active_event == ListAt(events, pos)
           calls == ClearCalls(active_event)
       IN  IF Expired(active_event, current_time)
           THEN /\ WrittenAddrs(calls) # {} => lock = "free"
                /\ dmx_data' = ApplyCalls(dmx_data, calls)
                /\ events_to_remove' = Append(events_to_remove, pos)
                /\ cleared' = Append(cleared, pos)
                /\ play_last' = Step("clear", pos)
           ELSE /\ play_last' = Step("keep", pos)
                /\ UNCHANGED <<dmx_data, events_to_remove, cleared>>
    /\ clear_pos' = clear_pos + 1
    /\ UNCHANGED <<lock, callerVars, txVars, histVars, restVars, sequence,
                   start_time_offset, is_playing, now, ppc, events, event_index,
                   active_events, start_time, current_time, order, fired,
                   fire_addrs>>

(* lines 254-256: the cleared events leave the active list *)
loop_remove ==
    /\ ppc = "clear"
    /\ clear_pos >= Len(active_events)
    /\ active_events' = RemoveAll(active_events, events_to_remove)
    /\ ppc' = "sleep"
    /\ play_last' = Step("remove", 0)
    /\ UNCHANGED <<dmxVars, restVars, sequence, start_time_offset, is_playing, now, events,
                   event_index, start_time, current_time, clear_pos,
                   events_to_remove, order, fired, cleared, fire_addrs>>

(* line 258: time.sleep(0.01); the thread runs again after 0..MaxLag tenths *)
loop_sleep ==
    /\ ppc = "sleep"
    /\ \E d \in 0..MaxLag : now' = Min(now + d, MaxTime)
    /\ ppc' = "while"
    /\ play_last' = Step("sleep", 0)
    /\ UNCHANGED <<dmxVars, restVars, sequence, start_time_offset, is_playing, events,
                   event_index, active_events, start_time, current_time,
                   clear_pos, events_to_remove, order, fired, cleared, fire_addrs>>

-----------------------------------------------------------------------------
(* The scheduling threads: each sequence_playback_loop runs with locals of its
   own; the locals of the thread that is not being stepped wait in parked *)

loopLocals == <<sequence, start_time_offset, ppc, events, event_index,
                active_events, start_time, current_time, clear_pos,
                events_to_remove, playHist, run>>

Context ==
    [sequence |-> sequence, start_time_offset |-> start_time_offset, ppc |-> ppc,
     events |-> events, event_index |-> event_index,
     active_events |-> active_events, start_time |-> start_time,
     current_time |-> current_time, clear_pos |-> clear_pos,
     events_to_remove |-> events_to_remove, order |-> order, fired |-> fired,
     cleared |-> cleared, fire_addrs |-> fire_addrs, play_last |-> play_last,
     run |-> run]

(* a thread about to run sequence_playback_loop(sequence, start_time_offset) *)
NewLoop(seq, offset, r) ==
    [sequence |-> seq, start_time_offset |-> offset, ppc |-> "begin",
     events |-> <<>>, event_index |-> 0, active_events |-> <<>>,
     start_time |-> 0, current_time |-> 0, clear_pos |-> 0,
     events_to_remove |-> <<>>, order |-> <<>>, fired |-> <<>>,
     cleared |-> <<>>, fire_addrs |-> <<>>, play_last |-> Step("none", 0),
     run |-> r]

NoLoop == [NewLoop(<<>>, 0, 0) EXCEPT !.ppc = "done"]

(* the thread has not returned from the loop, nor died of an exception *)
Alive(c) == c.ppc \notin {"done", "raised"}

Dispatch(c) ==
    /\ sequence' = c.sequence
    /\ start_time_offset' = c.start_time_offset
    /\ ppc' = c.ppc
    /\ events' = c.events
    /\ event_index' = c.event_index
    /\ active_events' = c.active_events
    /\ start_time' = c.start_time
    /\ current_time' = c.current_time
    /\ clear_pos' = c.clear_pos
    /\ events_to_remove' = c.events_to_remove
    /\ order' = c.order
    /\ fired' = c.fired
    /\ cleared' = c.cleared
    /\ fire_addrs' = c.fire_addrs
    /\ play_last' = c.play_last
    /\ run' = c.run

(* line 258 among other threads: time.sleep(0.01) returns; the time it took
   is counted by time_passes *)
loop_wake == loop_sleep /\ now' = now

(* the interpreter turns to the other scheduling thread *)
switch_loops ==
    /\ Alive(parked)
    /\ Dispatch(parked)
    /\ parked' = IF Alive(Context) THEN Context ELSE NoLoop
    /\ UNCHANGED <<dmxVars, audioVars, is_playing, now, apiVars, session, api_last,
                   sideVars>>

(* playback_thread.start() *)
StartThread(c) ==
    /\ Dispatch(c)
    /\ parked' = IF Alive(Context) THEN Context ELSE parked

-----------------------------------------------------------------------------
(* play_sequence, stop_playback, pause_playback, resume_playback of
   playback.py and seek_sequence of playback_api.py, called by one thread *)

STOP_SLEEP == 1     \* time.sleep(0.1)

NoArgs == [sequence |-> 0, start_time |-> 0]

(* the file of every song *)
SongFile == "song.mp3"

(* the sequences of the session specification, by id *)
SessionSequences == <<
    << [device_id |-> 1, type |-> "dimmer", value |-> 100, time |-> 0, duration |-> 2],
       [device_id |-> 2, type |-> "dimmer", value |-> 50, time |-> 1, duration |-> 2] >>,
    << [device_id |-> 2, type |-> "dimmer", value |-> 20, time |-> 0, duration |-> 1] >> >>
MaxSessions == 2        \* play_sequence calls that start a loop
MaxCalls == 3           \* playback calls of the calling thread
SessionMaxTime == 3     \* the clock of the session specification stops here

Returned(op) == [op |-> op, calls |-> api_last.calls + 1]

(* the calling thread is free to make another call *)
CanCall == apc = "idle" /\ api_last.calls < MaxCalls

(* stop_playback up to its time.sleep(0.1) *)
StopPlaybackEnter(next) ==
    /\ is_playing' = FALSE
    /\ current_sequence' = 0
    /\ AudioStep(Stop(audio_player, music), "stop", 0)
    /\ wake_time' = now + STOP_SLEEP
    /\ apc' = next
    /\ UNCHANGED <<paused_position, dmxVars, loopLocals, now, parked, session,
                   api_last>>

(* stop_playback from the end of the sleep: dmx_controller.clear_all() *)
StopPlaybackClear(next) ==
    /\ now >= wake_time
    /\ lock = "free"
    /\ dmx_data' = ClearedData
    /\ last' = Call("clear_all", 0, 0, dmx_data' # dmx_data)
    /\ raced' = Raced(dmx_data')
    /\ wake_time' = 0
    /\ apc' = next
    /\ UNCHANGED <<lock, callerVars, txVars, batch_changed, snap, frame_torn,
                   audioVars, loopLocals, is_playing, now, current_sequence,
                   api_args, parked, session>>

stop_playback_enter ==
    /\ CanCall
    /\ StopPlaybackEnter("stop_playback")
    /\ UNCHANGED <<api_args, sideVars>>

stop_playback_return ==
    /\ apc = "stop_playback"
    /\ StopPlaybackClear("idle")
    /\ api_last' = Returned("stop_playback")
    /\ UNCHANGED sideVars

(* line 186: is a sequence playing? *)
PlaySequenceEnter(seq, start) ==
    /\ ~(Alive(Context) /\ Alive(parked))
    /\ api_args' = [sequence |-> seq, start_time |-> start]
    /\ IF is_playing
       THEN StopPlaybackEnter("play_sequence_stop")
       ELSE /\ apc' = "play_sequence_start"
            /\ UNCHANGED <<dmxVars, audioVars, loopLocals, is_playing, now,
                           current_sequence, wake_time, parked, session, api_last>>

play_sequence_enter(seq, start) ==
    /\ CanCall
    /\ session < MaxSessions
    /\ PlaySequenceEnter(seq, start)
    /\ UNCHANGED sideVars

play_sequence_stopped ==
    /\ apc = "play_sequence_stop"
    /\ StopPlaybackClear("play_sequence_start")
    /\ UNCHANGED <<api_last, sideVars>>

(* lines 190-204: loaded and started say whether pygame loaded the file and
   started the music *)
play_sequence_start(loaded, started) ==
    /\ apc = "play_sequence_start"
    /\ current_sequence' = api_args.sequence
    /\ is_playing' = TRUE
    /\ LET song == LoadSong(audio_player, music, SongFile, loaded)
           out == IF loaded
                  THEN Play(song.player, song.music, api_args.start_time, now,
                            started)
                  ELSE song
       IN  /\ AudioStep(out, IF loaded THEN "play" ELSE "load_song",
                        api_args.start_time)
           /\ IF out.ret = "True"
              THEN /\ session' = session + 1
                   /\ StartThread(NewLoop(SessionSequences[api_args.sequence],
                                          api_args.start_time, session'))
              ELSE UNCHANGED <<loopLocals, parked, session>>
    /\ apc' = "idle"
    /\ api_args' = NoArgs
    /\ api_last' = Returned("play_sequence")
    /\ UNCHANGED <<paused_position, dmxVars, now, wake_time, sideVars>>

pause_playback ==
    /\ CanCall
    /\ IF is_playing
       THEN /\ is_playing' = FALSE
            /\ AudioStep(Pause(audio_player, music, now), "pause", 0)
            /\ paused_position' = PausedPosition
       ELSE UNCHANGED <<is_playing, audioVars>>
    /\ api_last' = Returned("pause_playback")
    /\ UNCHANGED <<dmxVars, loopLocals, now, apiVars, parked, session, sideVars>>

resume_playback ==
    /\ CanCall
    /\ IF ~is_playing /\ current_sequence # 0
       THEN /\ is_playing' = TRUE
            /\ AudioStep(Resume(audio_player, music, now), "resume", 0)
       ELSE UNCHANGED <<is_playing, audio_player, music, audio_last>>
    /\ api_last' = Returned("resume_playback")
    /\ UNCHANGED <<paused_position, dmxVars, loopLocals, now, apiVars, parked,
                   session, sideVars>>

seek_sequence(position, restarted, resumed) ==
    /\ CanCall
    /\ IF current_sequence # 0
       THEN AudioStep(Seek(audio_player, music, position, now, restarted,
                           resumed), "seek", position)
       ELSE UNCHANGED <<audio_player, music, audio_last>>
    /\ api_last' = Returned("seek_sequence")
    /\ UNCHANGED <<paused_position, dmxVars, loopLocals, is_playing, now,
                   apiVars, parked, session, sideVars>>

-----------------------------------------------------------------------------
(* stop_sequence of playback_api.py: a request thread of the web server calls
   stop_playback while another thread is in a playback call *)

MaxRequests == 1        \* requests the web server serves

(* stop_playback up to its time.sleep(0.1) *)
http_stop_enter ==
    /\ hpc = "idle"
    /\ http_last.calls < MaxRequests
    /\ is_playing' = FALSE
    /\ current_sequence' = 0
    /\ AudioStep(Stop(audio_player, music), "stop", 0)
    /\ http_wake' = now + STOP_SLEEP
    /\ hpc' = "stop_playback"
    /\ UNCHANGED <<paused_position, dmxVars, loopLocals, now, apc, api_args,
                   wake_time, parked, session, api_last, triggerVars, ctlVars,
                   http_last, buttonVars>>

(* stop_playback from the end of the sleep: dmx_controller.clear_all() *)
http_stop_return ==
    /\ hpc = "stop_playback"
    /\ now >= http_wake
    /\ lock = "free"
    /\ dmx_data' = ClearedData
    /\ last' = Call("clear_all", 0, 0, dmx_data' # dmx_data)
    /\ raced' = Raced(dmx_data')
    /\ http_wake' = 0
    /\ hpc' = "idle"
    /\ http_last' = [op |-> "stop_playback", calls |-> http_last.calls + 1]
    /\ UNCHANGED <<lock, callerVars, txVars, batch_changed, snap, frame_torn,
                   audioVars, loopLocals, is_playing, now, apiVars, parked,
                   session, api_last, triggerVars, ctlVars, buttonVars>>

-----------------------------------------------------------------------------
(* trigger_sequence_playback of playback.py: the playlist cursor and the lock *)

(* an active Playlist row: get_sequences() and random_mode *)
Playlist(sequence_ids, random_mode) ==
    [sequences |-> sequence_ids, random_mode |-> random_mode]

(* set(list) *)
ToSet(l) == {l[i] : i \in 1..Len(l)}

(* playback_lock.acquire(blocking=False) *)
LockAcquired_Always(l) == TRUE
LockAcquired(l) == l = "free"

(* the three cursor globals *)
Cursor ==
    [current_playlist_index |-> current_playlist_index,
     current_sequence_index |-> current_sequence_index,
     shuffled_sequence_order |-> shuffled_sequence_order]

(* if index >= len(list): index = 0 *)
Wrapped_Never(index, list) == index
Wrapped(index, list) == IF index >= Len(list) THEN 0 ELSE index

(* index += 1 *)
Advanced_Stays(index) == index
Advanced(index) == index + 1

(* lines 127-129: a new shuffle is due *)
Reshuffle_Always(shuffled, sequence_ids, index) == TRUE
Reshuffle(shuffled, sequence_ids, index) ==
    \/ shuffled = <<>>
    \/ ToSet(shuffled) # ToSet(sequence_ids)
    \/ index >= Len(shuffled)

(* the orders random.shuffle can leave a copy of the list in *)
Shuffles(list) ==
    {[i \in 1..Len(list) |-> list[p[i]]] :
        p \in {q \in [1..Len(list) -> 1..Len(list)] :
                 \A i, j \in 1..Len(list) : i # j => q[i] # q[j]}}

Selection(result, sequence_id, cursor) ==
    [ret |-> result, sequence_id |-> sequence_id, cursor |-> cursor]

(* lines 118-120, 142-144: on to the next playlist *)
NextPlaylist_Stays(c, playlists, shuffled) ==
    [current_playlist_index |-> c.current_playlist_index,
     current_sequence_index |-> 0,
     shuffled_sequence_order |-> shuffled]
NextPlaylist(c, playlists, shuffled) ==
    [current_playlist_index |-> (c.current_playlist_index + 1) % Len(playlists),
     current_sequence_index |-> 0,
     shuffled_sequence_order |-> shuffled]

(* lines 124-144: random mode; shuffle is what random.shuffle would leave *)
SelectRandom(c, playlists, sequence_ids, shuffle) ==
    LET fresh == Reshuffle(c.shuffled_sequence_order, sequence_ids,
                           c.current_sequence_index)
        shuffled == IF fresh THEN shuffle ELSE c.shuffled_sequence_order
        index == IF fresh THEN 0 ELSE c.current_sequence_index
        next == Advanced(index)
    IN  Selection("selected", ListAt(shuffled, index),
                  IF next >= Len(shuffled)
                  THEN NextPlaylist(c, playlists, <<>>)
                  ELSE [c EXCEPT !.current_sequence_index = next,
                                 !.shuffled_sequence_order = shuffled])

(* lines 145-157: cycle mode *)
SelectCycle(c, playlists, sequence_ids) ==
    LET index == Wrapped(c.current_sequence_index, sequence_ids)
        next == Advanced(index)
    IN  Selection("selected", ListAt(sequence_ids, index),
                  IF next >= Len(sequence_ids)
                  THEN NextPlaylist(c, playlists, c.shuffled_sequence_order)
                  ELSE [c EXCEPT !.current_sequence_index = next])

(* lines 97-157: from the lock to the selected sequence id *)
Select(c, playlists, shuffle) ==
    IF ~flask_app THEN Selection("no_app", 0, c)
    ELSE IF playlists = <<>> THEN Selection("no_playlists", 0, c)
    ELSE LET at == [c EXCEPT !.current_playlist_index =
                                 Wrapped(c.current_playlist_index, playlists)]
             playlist == ListAt(playlists, at.current_playlist_index)
         IN  IF playlist.sequences = <<>>
             THEN Selection("empty", 0, NextPlaylist(at, playlists, <<>>))
             ELSE IF playlist.random_mode
             THEN SelectRandom(at, playlists, playlist.sequences, shuffle)
             ELSE SelectCycle(at, playlists, playlist.sequences)

(* lines 113, 135, 149: the subscripts the call evaluates, each as
   <<length of the list, index>> *)
Subscripts(c, playlists) ==
    IF ~flask_app \/ playlists = <<>> THEN {}
    ELSE LET at == Wrapped(c.current_playlist_index, playlists)
         IN  {<<Len(playlists), at>>} \cup
             IF at >= Len(playlists) THEN {}
             ELSE LET playlist == ListAt(playlists, at)
                      sequence_ids == playlist.sequences
                  IN  IF sequence_ids = <<>> THEN {}
                      ELSE IF playlist.random_mode
                      THEN IF Reshuffle(c.shuffled_sequence_order, sequence_ids,
                                        c.current_sequence_index)
                           THEN {<<Len(sequence_ids), 0>>}
                           ELSE {<<Len(c.shuffled_sequence_order),
                                   c.current_sequence_index>>}
                      ELSE {<<Len(sequence_ids),
                              Wrapped(c.current_sequence_index, sequence_ids)>>}

(* db.session.get(Sequence, sequence_id) finds a sequence that has a song *)
SequenceFound(sequence_id) == sequence_id \in DOMAIN SessionSequences

(* the list random.shuffle is given by the trigger that comes now *)
ShuffledIds ==
    IF active_playlists = <<>> THEN <<>>
    ELSE ListAt(active_playlists,
                Wrapped(current_playlist_index, active_playlists)).sequences

MaxTriggers == 4        \* trigger_sequence_playback calls

Triggered(op) == [op |-> op, calls |-> trigger_last.calls + 1]

(* lines 84-165: one call, up to its return or into play_sequence; a call
   that finds the lock held returns at once *)
trigger_sequence_playback(shuffle) ==
    /\ trigger_last.calls < MaxTriggers
    /\ IF ~LockAcquired(playback_lock)
       THEN /\ trigger_last' = Triggered("dropped")
            /\ UNCHANGED <<dmxVars, playVars, audioVars, apiVars, parked, run,
                           session, api_last, playback_lock, cursorVars, tpc,
                           selected>>
       ELSE LET s == Select(Cursor, active_playlists, shuffle)
            IN  /\ current_playlist_index' = s.cursor.current_playlist_index
                /\ current_sequence_index' = s.cursor.current_sequence_index
                /\ shuffled_sequence_order' = s.cursor.shuffled_sequence_order
                /\ selected' = IF s.ret = "selected"
                               THEN Append(selected, s.sequence_id) ELSE selected
                /\ IF s.ret = "selected" /\ SequenceFound(s.sequence_id)
                   THEN /\ PlaySequenceEnter(s.sequence_id, 0)
                        /\ playback_lock' = "held"
                        /\ tpc' = "play_sequence"
                        /\ trigger_last' = Triggered("play_sequence")
                   ELSE /\ trigger_last' =
                              Triggered(IF s.ret = "selected" THEN "not_found"
                                        ELSE s.ret)
                        /\ UNCHANGED <<dmxVars, playVars, audioVars, apiVars,
                                       parked, run, session, api_last,
                                       playback_lock, tpc>>
    /\ UNCHANGED <<active_playlists, ctlVars, extraVars>>

(* the playlists are edited between two triggers: the query of line 103
   returns another table from now on *)
playlists_change(table) ==
    /\ table # active_playlists
    /\ active_playlists' = table
    /\ UNCHANGED <<dmxVars, playVars, audioVars, apiVars, parked, run, session,
                   api_last, playback_lock, cursorVars, tpc, selected,
                   trigger_last, ctlVars, extraVars>>

(* lines 171-176: finally: playback_lock.release(), whatever play_sequence
   returned or raised *)
Release_UnlessRaised(result) == IF result = "raised" THEN "held" ELSE "free"
Release(result) == "free"

(* lines 165-177: play_sequence has returned or raised; time.sleep(0.5) if
   it returned, and the lock is released *)
trigger_release ==
    /\ tpc = "play_sequence"
    /\ apc = "idle"
    /\ playback_lock' = Release(audio_last.ret)
    /\ tpc' = "idle"
    /\ trigger_last' = [trigger_last EXCEPT !.op =
                           IF audio_last.ret = "raised" THEN "failed" ELSE "started"]
    /\ UNCHANGED <<dmxVars, playVars, audioVars, apiVars, parked, run, session,
                   api_last, cursorVars, active_playlists, selected, ctlVars, extraVars>>

-----------------------------------------------------------------------------
(* button_handler of playback.py: the thread polling the button, times in
   hundredths of a second *)

DEBOUNCE == 5           \* time.sleep(0.05)
POLL == 2               \* time.sleep(0.02)
RELEASE_POLL == 5       \* time.sleep(0.05)
RELEASE_DEBOUNCE == 10  \* time.sleep(0.1)
COOLDOWN == 200         \* 2.0

MaxPresses == 3         \* times the button is pressed
MaxSinceTrigger == 203  \* the clock stops this long after the last trigger

(* how long after it is due a sleep may return *)
Oversleep == {0, 1}

(* the thread is free to sleep on *)
CanSleep == button_clock - last_trigger_time < MaxSinceTrigger

(* time.sleep(d) returns *)
Slept(d) == {button_clock + d + over : over \in Oversleep}

(* line 57: GPIO.input(BUTTON_PIN) == GPIO.LOW *)
StillPressed_NotSampled(level) == TRUE
StillPressed(level) == level = "LOW"

(* line 59 *)
CooldownOver_Always(t, last_time) == TRUE
CooldownOver(t, last_time) == t - last_time >= COOLDOWN

(* line 67: the inner while loop ends *)
Released(level) == level # "LOW"

(* threading.Thread(target=trigger_sequence_playback, daemon=True).start() *)
Launch == Append(launches, [press |-> presses, time |-> button_time])

(* lines 48-54 and 75-76: one sample of the input, to the end of the sleep
   that follows it *)
button_sample ==
    /\ bpc = "sample"
    /\ CanSleep
    /\ button_is_high' = (pin = "HIGH")
    /\ button_time' = button_clock
    /\ IF button_was_high /\ ~button_is_high'
       THEN /\ button_clock' \in Slept(DEBOUNCE)
            /\ bpc' = "confirm"
            /\ UNCHANGED button_was_high
       ELSE /\ button_was_high' = button_is_high'
            /\ button_clock' \in Slept(POLL)
            /\ UNCHANGED bpc
    /\ UNCHANGED <<pin, last_trigger_time, presses, launches, dmxVars, playVars,
                   audioVars, coreVars, httpVars>>

(* lines 57-64 and 75-76: the second sample; the trigger thread is started,
   or the press is passed over *)
button_confirm ==
    /\ bpc = "confirm"
    /\ IF StillPressed(pin) /\ CooldownOver(button_time, last_trigger_time)
       THEN /\ last_trigger_time' = button_time
            /\ launches' = Launch
            /\ bpc' = "held"
            /\ UNCHANGED <<button_was_high, button_clock>>
       ELSE /\ button_was_high' = button_is_high
            /\ button_clock' \in Slept(POLL)
            /\ bpc' = "sample"
            /\ UNCHANGED <<last_trigger_time, launches>>
    /\ UNCHANGED <<pin, button_is_high, button_time, presses, dmxVars, playVars,
                   audioVars, coreVars, httpVars>>

(* lines 67-73: waiting for the button to be let go *)
button_release_wait ==
    /\ bpc = "held"
    /\ CanSleep
    /\ IF Released(pin)
       THEN /\ button_was_high' = TRUE
            /\ button_clock' \in Slept(RELEASE_DEBOUNCE)
            /\ bpc' = "sample"
       ELSE /\ button_clock' \in Slept(RELEASE_POLL)
            /\ UNCHANGED <<button_was_high, bpc>>
    /\ UNCHANGED <<pin, button_is_high, button_time, last_trigger_time, presses,
                   launches, dmxVars, playVars, audioVars, coreVars, httpVars>>

(* the button goes down *)
button_down ==
    /\ pin = "HIGH"
    /\ presses < MaxPresses
    /\ pin' = "LOW"
    /\ presses' = presses + 1
    /\ UNCHANGED <<bpc, button_was_high, button_is_high, button_time,
                   last_trigger_time, button_clock, launches, dmxVars, playVars,
                   audioVars, coreVars, httpVars>>

(* the button comes up *)
button_up ==
    /\ pin = "LOW"
    /\ pin' = "HIGH"
    /\ UNCHANGED <<bpc, button_was_high, button_is_high, button_time,
                   last_trigger_time, button_clock, presses, launches, dmxVars,
                   playVars, audioVars, coreVars, httpVars>>

-----------------------------------------------------------------------------
(* Inputs *)

TestChannels == (0..NearAddrs) \cup (DMX_CHANNELS..(DMX_CHANNELS + 1))
TestValues == {-1, 0, 128, 255, 256}

BatchItems == {0, 1, DMX_CHANNELS} \X {-1, 300}
DistinctKeys(b) == \A i, j \in 1..Len(b) : i # j => b[i][1] # b[j][1]
BatchesOfLen(n) == {b \in [1..n -> BatchItems] : DistinctKeys(b)}
Batches == UNION {BatchesOfLen(n) : n \in 0..MaxBatch}

TxChannels == 1..TxAddrs
TxValues == {0, 255}
SeekPositions == {0, 2}
AudioMaxTime == 5   \* the clock of the audio specification stops here

TxBatches == {[i \in 1..TxAddrs |-> <<i, f[i]>>] : f \in [1..TxAddrs -> TxValues]}

InitDMX ==
    /\ dmx_data = Bytearray(DMX_CHANNELS)
    /\ lock = "free"
    /\ cpc = "idle"
    /\ channel_dict = <<>>
    /\ item = 0
    /\ ret = 0
    /\ txpc = "idle"
    /\ packet = <<>>
    /\ wire = <<>>
    /\ last = NoCall
    /\ batch_changed = {}
    /\ snap = <<>>
    /\ frame_torn = FALSE
    /\ raced = FALSE
    /\ running = FALSE
    /\ thread = 0
    /\ output_loops = <<>>
    /\ dpc = "idle"
    /\ join_deadline = 0
    /\ ctl_last = [op |-> "none", calls |-> 0]

(* _init_uart: serial.Serial(...) returns the port, or raises *)
init_uart(available) ==
    /\ serial_port = IF available THEN "Serial" ELSE "None"
    /\ serial_open = available

(* no sequence is playing *)
InitNoPlayback ==
    /\ sequence = <<>>
    /\ start_time_offset = 0
    /\ is_playing = FALSE
    /\ now = 1
    /\ ppc = "done"
    /\ events = <<>>
    /\ event_index = 0
    /\ active_events = <<>>
    /\ start_time = 0
    /\ current_time = 0
    /\ clear_pos = 0
    /\ events_to_remove = <<>>
    /\ order = <<>>
    /\ fired = <<>>
    /\ cleared = <<>>
    /\ fire_addrs = <<>>
    /\ play_last = Step("none", 0)

(* a new AudioPlayer, nothing loaded *)
InitAudioPlayer ==
    /\ audio_player = NewAudioPlayer
    /\ music = NoMusic
    /\ audio_last = AudioCall("none", 0, "None", 0)
    /\ paused_position = 0

(* no playback call has been made *)
InitNoSession ==
    /\ current_sequence = 0
    /\ apc = "idle"
    /\ api_args = NoArgs
    /\ wake_time = 0
    /\ parked = NoLoop
    /\ run = 0
    /\ session = 0
    /\ api_last = [op |-> "none", calls |-> 0]

(* the module globals of playback.py as the import leaves them; no trigger
   has come *)
InitCursor ==
    /\ playback_lock = "free"
    /\ current_playlist_index = 0
    /\ current_sequence_index = 0
    /\ shuffled_sequence_order = <<>>
    /\ tpc = "idle"
    /\ selected = <<>>
    /\ trigger_last = [op |-> "none", calls |-> 0]

(* no request is being served *)
InitHttp ==
    /\ hpc = "idle"
    /\ http_wake = 0
    /\ http_last = [op |-> "none", calls |-> 0]

(* lines 20, 41-45: the handler is about to take its first sample; the
   clock has run for longer than the cooldown *)
InitButton(level) ==
    /\ pin = level
    /\ bpc = "sample"
    /\ button_was_high = TRUE
    /\ button_is_high = TRUE
    /\ button_time = 0
    /\ last_trigger_time = 0
    /\ button_clock = COOLDOWN
    /\ presses = IF level = "LOW" THEN 1 ELSE 0
    /\ launches = <<>>

InitIdle == InitHttp /\ InitButton("HIGH")

(* no playlist is active *)
InitNoPlaylists == InitCursor /\ InitIdle /\ active_playlists = <<>>

vars == <<dmxVars, playVars, restVars>>

(* the channel buffer under one caller *)
InitBuffer ==
    /\ InitDMX /\ init_uart(FALSE) /\ InitNoPlayback /\ InitAudioPlayer
    /\ InitNoSession /\ InitNoPlaylists

NextBuffer ==
    \/ \E c \in TestChannels, v \in TestValues : set_channel(c, v)
    \/ \E c \in TestChannels : get_channel(c)
    \/ \E b \in Batches : set_channels_enter(b)
    \/ set_channels_item
    \/ set_channels_exit
    \/ clear_all

SpecBuffer == InitBuffer /\ [][NextBuffer]_vars

(* the transmit loop against one writer *)
InitTransmit ==
    /\ InitDMX /\ \E available \in BOOLEAN : init_uart(available)
    /\ InitNoPlayback /\ InitAudioPlayer /\ InitNoSession /\ InitNoPlaylists

NextTransmit ==
    \/ \E c \in TxChannels, v \in TxValues : set_channel(c, v)
    \/ \E b \in TxBatches : set_channels_enter(b)
    \/ set_channels_item
    \/ set_channels_exit
    \/ clear_all
    \/ send_dmx_frame_no_port
    \/ send_dmx_frame_copy
    \/ send_dmx_frame_break
    \/ send_dmx_frame_data

SpecTransmit == InitTransmit /\ [][NextTransmit]_vars

(* one run of sequence_playback_loop, started by play_sequence *)
InitPlayback ==
    /\ InitDMX
    /\ init_uart(FALSE)
    /\ \E n \in 0..MaxEvents : \E f \in [1..n -> 1..Len(EventPool)] :
          sequence = [i \in 1..n |-> EventPool[f[i]]]
    /\ start_time_offset \in StartOffsets
    /\ is_playing = TRUE
    /\ now = 1
    /\ ppc = "begin"
    /\ events = <<>>
    /\ event_index = 0
    /\ active_events = <<>>
    /\ start_time = 0
    /\ current_time = 0
    /\ clear_pos = 0
    /\ events_to_remove = <<>>
    /\ order = <<>>
    /\ fired = <<>>
    /\ cleared = <<>>
    /\ fire_addrs = <<>>
    /\ play_last = Step("none", 0)
    /\ audio_player = Started(LoadSong(NewAudioPlayer, NoMusic, SongFile, TRUE).player,
                              start_time_offset, now)
    /\ music = MusicPlay(NoMusic, start_time_offset)
    /\ audio_last = AudioCall("play", start_time_offset, "True", 0)
    /\ paused_position = 0
    /\ current_sequence = 1
    /\ apc = "idle"
    /\ api_args = NoArgs
    /\ wake_time = 0
    /\ parked = NoLoop
    /\ run = 1
    /\ session = 1
    /\ api_last = [op |-> "play_sequence", calls |-> 1]
    /\ InitNoPlaylists

NextPlayback ==
    \/ loop_begin
    \/ loop_iterate
    \/ loop_exit
    \/ loop_fire
    \/ loop_fire_end
    \/ loop_clear
    \/ loop_remove
    \/ loop_sleep

SpecPlayback == InitPlayback /\ [][NextPlayback]_vars

(* the controller started and stopped by one thread while another writes
   channels; the clock runs while stop waits in join *)
OutputChannels == {1, DMX_CHANNELS}
OutputValues == {0, 200}
OutputBatch == << <<1, 200>>, <<DMX_CHANNELS, 300>> >>

InitOutput ==
    /\ InitDMX /\ \E available \in BOOLEAN : init_uart(available)
    /\ InitNoPlayback /\ InitAudioPlayer /\ InitNoSession /\ InitNoPlaylists

NextOutput ==
    \/ dmx_start
    \/ dmx_stop_enter
    \/ dmx_stop_return
    \/ \E t \in 1..Len(output_loops) : output_loop_test(t)
    \/ \E t \in 1..Len(output_loops) : output_loop_frame(t)
    \/ \E c \in OutputChannels, v \in OutputValues : set_channel(c, v)
    \/ \E c \in OutputChannels : get_channel(c)
    \/ set_channels_enter(OutputBatch)
    \/ set_channels_item
    \/ set_channels_exit
    \/ clear_all
    \/ join_times_out

SpecOutput == InitOutput /\ [][NextOutput]_vars

(* the AudioPlayer under one caller, the clock running *)
InitAudio ==
    /\ InitDMX /\ init_uart(FALSE) /\ InitNoPlayback /\ InitAudioPlayer
    /\ InitNoSession /\ InitNoPlaylists

NextAudio ==
    \/ \E loaded \in BOOLEAN : load_song(SongFile, loaded)
    \/ \E p \in SeekPositions, started \in BOOLEAN : play(p, started)
    \/ pause
    \/ resume
    \/ stop
    \/ \E p \in SeekPositions, restarted, resumed \in BOOLEAN :
          seek(p, restarted, resumed)
    \/ get_position
    \/ time_passes(AudioMaxTime)

SpecAudio == InitAudio /\ [][NextAudio]_vars

(* playback sessions: one calling thread, the scheduling threads it starts,
   the clock *)
InitSession == InitAudio

NextSession ==
    \/ \E seq \in 1..Len(SessionSequences) : play_sequence_enter(seq, 0)
    \/ play_sequence_stopped
    \/ \E loaded, started \in BOOLEAN : play_sequence_start(loaded, started)
    \/ stop_playback_enter
    \/ stop_playback_return
    \/ pause_playback
    \/ resume_playback
    \/ \E p \in SeekPositions : seek_sequence(p, TRUE, TRUE)
    \/ loop_begin
    \/ loop_iterate
    \/ loop_exit
    \/ loop_fire
    \/ loop_fire_end
    \/ loop_clear
    \/ loop_remove
    \/ loop_wake
    \/ switch_loops
    \/ time_passes(SessionMaxTime)

SpecSession == InitSession /\ [][NextSession]_vars

(* the button triggers: the playlists as the database holds them, the
   sessions the triggers start; the clock runs while stop_playback sleeps *)
PlaylistIds == {<<>>, <<2, 3, 4>>, <<3, 2>>}
PlaylistPool == {Playlist(ids, mode) : ids \in PlaylistIds, mode \in BOOLEAN}
ShortPlaylists == {Playlist(<<>>, FALSE), Playlist(<<3, 2>>, FALSE), Playlist(<<3, 2>>, TRUE)}
PlaylistTables ==
    {<<>>} \cup {<<p>> : p \in PlaylistPool}
           \cup {<<p, q>> : p \in ShortPlaylists, q \in ShortPlaylists}

InitTrigger ==
    /\ InitDMX /\ init_uart(FALSE) /\ InitNoPlayback /\ InitAudioPlayer
    /\ InitNoSession /\ InitCursor /\ InitIdle
    /\ active_playlists \in PlaylistTables

NextTrigger ==
    \/ \E shuffle \in Shuffles(ShuffledIds) : trigger_sequence_playback(shuffle)
    \/ play_sequence_stopped
    \/ \E loaded, started \in BOOLEAN : play_sequence_start(loaded, started)
    \/ trigger_release
    \/ loop_begin
    \/ loop_iterate
    \/ loop_exit
    \/ loop_fire
    \/ loop_fire_end
    \/ loop_clear
    \/ loop_remove
    \/ loop_wake
    \/ switch_loops
    \/ time_passes(wake_time)

SpecTrigger == InitTrigger /\ [][NextTrigger]_vars

(* the thread inside trigger_sequence_playback is scheduled again and again,
   and its sleeps end *)
TriggerThread ==
    \/ play_sequence_stopped
    \/ \E loaded, started \in BOOLEAN : play_sequence_start(loaded, started)
    \/ trigger_release
    \/ time_passes(wake_time)

FairTables ==
    {<<p>> : p \in ShortPlaylists}
        \cup {<< Playlist(<<3, 2>>, FALSE), Playlist(<<>>, FALSE) >>}

InitTriggerFair ==
    /\ InitDMX /\ init_uart(FALSE) /\ InitNoPlayback /\ InitAudioPlayer
    /\ InitNoSession /\ InitCursor /\ InitIdle
    /\ active_playlists \in FairTables

SpecTriggerFair ==
    InitTriggerFair /\ [][NextTrigger]_vars /\ WF_vars(TriggerThread)

(* the cursor while the playlists are edited; none of the sequences is in
   the database any more, so no trigger starts a session *)
CursorIds == {<<>>, <<3>>, <<4, 3>>, <<3, 3, 4>>, <<3, 4, 5>>}
CursorPlaylists == {Playlist(ids, mode) : ids \in CursorIds, mode \in BOOLEAN}
CursorTables ==
    {<<>>} \cup {<<p>> : p \in CursorPlaylists}
           \cup {<<Playlist(<<4, 3>>, mode), p>> :
                    mode \in BOOLEAN,
                    p \in {Playlist(<<>>, FALSE), Playlist(<<3, 4, 5>>, TRUE)}}

InitPlaylistCursor ==
    /\ InitDMX /\ init_uart(FALSE) /\ InitNoPlayback /\ InitAudioPlayer
    /\ InitNoSession /\ InitCursor /\ InitIdle
    /\ active_playlists \in CursorTables

NextCursor ==
    \/ \E shuffle \in Shuffles(ShuffledIds) : trigger_sequence_playback(shuffle)
    \/ \E table \in CursorTables : playlists_change(table)

SpecCursor == InitPlaylistCursor /\ [][NextCursor]_vars

(* the button triggers against the stop requests of the web server *)
CallersTable == << Playlist(<<2>>, FALSE) >>

CallerTriggers == 2      \* button presses while the web server is serving

(* a trigger thread started by the button handler runs *)
button_trigger ==
    /\ trigger_last.calls < CallerTriggers
    /\ \E shuffle \in Shuffles(ShuffledIds) : trigger_sequence_playback(shuffle)

InitCallers ==
    /\ InitDMX /\ init_uart(FALSE) /\ InitNoPlayback /\ InitAudioPlayer
    /\ InitNoSession /\ InitCursor /\ InitIdle
    /\ active_playlists = CallersTable

NextCallers ==
    \/ button_trigger
    \/ play_sequence_stopped
    \/ play_sequence_start(TRUE, TRUE)
    \/ trigger_release
    \/ http_stop_enter
    \/ http_stop_return
    \/ loop_begin
    \/ loop_iterate
    \/ loop_exit
    \/ loop_fire
    \/ loop_fire_end
    \/ loop_clear
    \/ loop_remove
    \/ loop_wake
    \/ switch_loops
    \/ time_passes(Max(wake_time, http_wake))

SpecCallers == InitCallers /\ [][NextCallers]_vars

(* the button thread and the button *)
InitButtonHandler ==
    /\ InitDMX /\ init_uart(FALSE) /\ InitNoPlayback /\ InitAudioPlayer
    /\ InitNoSession /\ InitCursor /\ InitHttp
    /\ \E level \in {"HIGH", "LOW"} : InitButton(level)
    /\ active_playlists = <<>>

NextButton ==
    \/ button_sample
    \/ button_confirm
    \/ button_release_wait
    \/ button_down
    \/ button_up

SpecButton == InitButtonHandler /\ [][NextButton]_vars

-----------------------------------------------------------------------------
(* Properties of the channel buffer, under SpecBuffer *)

Channels == 1..DMX_CHANNELS
Bytes == 0..DMX_MAX_VALUE

(* C1: for every address a in 1..512 and value v in 0..255, set_channel(a, v)
   followed by get_channel(a) returns v; for every address outside 1..512,
   set_channel changes no slot of the buffer and get_channel returns 0. *)
C1_SetThenGet ==
    [][ /\ ( /\ last.op = "set_channel"
             /\ last'.op = "get_channel"
             /\ last'.channel = last.channel
             /\ last.channel \in Channels
             /\ last.value \in Bytes ) => ret' = last.value
        /\ (last'.op = "set_channel" /\ last'.channel \notin Channels)
               => dmx_data' = dmx_data
        /\ (last'.op = "get_channel" /\ last'.channel \notin Channels)
               => ret' = 0 ]_vars

(* a get_channel of the last slot returned the 128 that was stored there *)
C1_Witness ==
    /\ last.op = "get_channel"
    /\ last.channel = DMX_CHANNELS
    /\ ret = 128
    /\ dmx_data[DMX_CHANNELS] = 128

(* C2: after any sequence of set_channel, set_channels and clear_all calls with
   arbitrary integer values the buffer has exactly 512 slots, each holding a
   value in 0..255; a written value below 0 is stored as 0 and a value above
   255 is stored as 255. *)
C2_SlotsAreBytes ==
    /\ Len(dmx_data) = 512
    /\ \A i \in 1..Len(dmx_data) : dmx_data[i] \in 0..255
    /\ (last.op \in {"set_channel", "set_channels"} /\ last.channel \in Channels)
          => dmx_data[last.channel] =
                IF last.value < 0 THEN 0
                ELSE IF last.value > 255 THEN 255 ELSE last.value

(* a batch has just stored 300 as 255 over another value *)
C2_Witness ==
    /\ last.op = "set_channels"
    /\ last.channel \in Channels
    /\ last.value > 255
    /\ last.changed

(* C3: immediately after clear_all(), get_channel(a) returns 0 for every a in
   1..512, whatever the buffer held before. *)
C3_ClearAllZeroes ==
    last.op = "clear_all" => \A a \in Channels : ReadChannel(dmx_data, a) = 0

(* clear_all has just run on a buffer that held a value *)
C3_Witness == last.op = "clear_all" /\ last.changed

-----------------------------------------------------------------------------
(* Properties of the transmitter, under SpecTransmit *)

(* C4: a set_channels batch is atomic for the transmit loop: no frame copied
   by _send_dmx_frame holds the new value of one address of a batch and the
   old value of another address of the same batch (frame_torn records, at the
   copy, that the running batch had changed one channel and had another yet
   to change). *)
C4_BatchAtomic == ~frame_torn

(* the batch is half applied while the transmit thread, which has sent frames
   before, stands at its copy *)
C4_Witness == HalfApplied /\ txpc = "idle" /\ serial_open /\ wire # <<>>

(* C5: every data packet written is exactly 513 bytes, byte 0 the start code 0
   and bytes 1..512 the channel buffer as it was at the locked copy, also when
   clear_all or set_channel runs between the copy and the write. *)
C5_FrameIsSnapshot ==
    /\ wire # <<>> => Len(wire) = 513 /\ wire[1] = 0
    /\ (txpc = "idle" /\ wire # <<>>)
          => \A i \in 1..512 : wire[i + 1] = snap[i]

(* a frame has been written after clear_all changed the buffer between the
   copy and the write *)
C5_Witness ==
    /\ txpc = "idle"
    /\ wire # <<>>
    /\ raced
    /\ last.op = "clear_all"
    /\ wire # BuildPacket(dmx_data)

-----------------------------------------------------------------------------
(* Properties of the scheduler, under SpecPlayback *)

Indices == 0..(Len(events) - 1)
Range(seq) == {seq[i] : i \in 1..Len(seq)}

(* the address of the dimmer channel of a patched device *)
DimmerAddress(device_id) ==
    LET pd == PatchedDevices[device_id]
        i == CHOOSE j \in 1..Len(pd.channels) : pd.channels[j] = "dimmer_channel"
    IN  pd.start_address + i - 1

(* the event list is two dimmer events on two different patched fixtures,
   neither before the start offset *)
TwoDimmerEvents ==
    /\ Len(sequence) = 2
    /\ \A i \in 1..2 :
          /\ sequence[i].type = "dimmer"
          /\ sequence[i].device_id \in DOMAIN PatchedDevices
          /\ sequence[i].value \in 0..100
          /\ start_time_offset <= EventTime(sequence[i])
    /\ sequence[1].device_id # sequence[2].device_id

(* the event list is [{t=0, dimmer 100%, dur=1}, {t=0.5, dimmer 50%, dur=1}] *)
ExampleSequence ==
    /\ Len(sequence) = 2
    /\ DictEq(sequence[1], EventPool[1])
    /\ DictEq(sequence[2], EventPool[2])

(* C6: for two dimmer events on two different fixtures, after the iteration
   of the loop at elapsed time e each fixture's dimmer channel holds the
   event's scaled value (value * 255 / 100, truncated) while
   time <= e < time + duration, and 0 once e >= time + duration; for
   {t=0, 100%, dur=1} and {t=0.5, 50%, dur=1} the channels read 255 and about
   128 at e=0.6 and both read 0 at e=1.6. *)
C6_TwoDimmers ==
    /\ (ppc = "sleep" /\ TwoDimmerEvents) =>
          \A i \in 1..2 :
             LET ev == sequence[i]
                 end == EventTime(ev) + Get(ev, "duration", 20)
                 ch == ReadChannel(dmx_data, DimmerAddress(ev.device_id))
             IN  /\ (EventTime(ev) <= current_time /\ current_time < end)
                        => ch = (ev.value * 255) \div 100
                 /\ current_time >= end => ch = 0
    /\ ( /\ ppc = "sleep"
         /\ ExampleSequence
         /\ start_time_offset = 0 ) =>
          /\ current_time = 6 =>
                /\ ReadChannel(dmx_data, DimmerAddress(1)) = 255
                /\ ReadChannel(dmx_data, DimmerAddress(2)) \in 127..129
          /\ current_time = 16 =>
                /\ ReadChannel(dmx_data, DimmerAddress(1)) = 0
                /\ ReadChannel(dmx_data, DimmerAddress(2)) = 0

(* the iteration at e=0.6 of the two-event sequence has run *)
C6_Witness ==
    /\ ppc = "sleep"
    /\ ExampleSequence
    /\ start_time_offset = 0
    /\ current_time = 6
    /\ fired = <<0, 1>>
    /\ ReadChannel(dmx_data, DimmerAddress(2)) = 127

(* C7: within one run of the loop events fire in non-decreasing order of
   time, events of equal time in their source order; no event fires before
   the elapsed time has reached its time, and none fires twice. *)
C7_FireOrder ==
    /\ \A i, j \in 1..Len(fired) :
          i < j =>
             /\ fired[i] # fired[j]
             /\ EventTime(ListAt(events, fired[i])) <= EventTime(ListAt(events, fired[j]))
             /\ EventTime(ListAt(events, fired[i])) = EventTime(ListAt(events, fired[j]))
                   => ListAt(order, fired[i]) < ListAt(order, fired[j])
    /\ play_last.op = "fire"
          => current_time >= EventTime(ListAt(events, play_last.pos))

(* two events stored latest first have both fired, the earlier one first *)
C7_Witness ==
    /\ fired = <<0, 1>>
    /\ order = <<2, 1>>
    /\ EventTime(ListAt(events, 0)) < EventTime(ListAt(events, 1))

(* C8: an event is cleared only after that same event has fired, only once
   elapsed >= time + duration (duration 2.0 when absent), and at most once;
   an event that never fired is never cleared. *)
C8_ClearAfterFire ==
    /\ \A i \in 1..Len(cleared) :
          /\ cleared[i] \in Range(fired)
          /\ \A j \in 1..Len(cleared) : j # i => cleared[j] # cleared[i]
    /\ play_last.op = "clear" =>
          LET ev == ListAt(events, play_last.pos)
          IN  current_time >= EventTime(ev) +
                 (IF "duration" \in DOMAIN ev THEN ev.duration ELSE 20)

(* an event without a duration has just been cleared in a run that skipped
   another event *)
C8_Witness ==
    /\ play_last.op = "clear"
    /\ "duration" \notin DOMAIN ListAt(events, play_last.pos)
    /\ \E k \in Indices : k < event_index /\ k \notin Range(fired)

(* C9: when playback starts at offset s, an event with time < s never fires
   and never writes a channel, and an event with time >= s (time = s too) is
   still eligible: it has fired or is still ahead of event_index. *)
C9_SkipBeforeOffset ==
    ppc # "begin" =>
       /\ \A k \in Indices :
             IF EventTime(ListAt(events, k)) < start_time_offset
             THEN /\ k \notin Range(fired)
                  /\ k \notin Range(cleared)
                  /\ k \notin Range(active_events)
             ELSE k \in Range(fired) \/ k >= event_index
       /\ (\A k \in Indices : EventTime(ListAt(events, k)) < start_time_offset)
             => dmx_data = Bytearray(DMX_CHANNELS)

(* started at offset 0.5: the event at 0.5 has fired, the event at 0 has not *)
C9_Witness ==
    /\ start_time_offset = 5
    /\ \E k \in Range(fired) : EventTime(ListAt(events, k)) = start_time_offset
    /\ \E k \in Indices : EventTime(ListAt(events, k)) < start_time_offset
    /\ ppc = "done"

(* C10: clearing an event writes 0 to exactly the addresses that firing that
   event wrote, and leaves every other channel of the buffer unchanged. *)
C10_ClearTouchesFired ==
    [][ Len(cleared') > Len(cleared) =>
           LET pos == cleared'[Len(cleared')]
               k == CHOOSE j \in 1..Len(fired) : fired[j] = pos
               addrs == fire_addrs[k]
           IN  /\ WrittenAddrs(ClearCalls(ListAt(events, pos))) = addrs
               /\ \A a \in Channels :
                     dmx_data'[a] = IF a \in addrs THEN 0 ELSE dmx_data[a] ]_vars

(* an event that wrote channels has just been cleared while a channel of
   another event is still lit *)
C10_Witness ==
    /\ play_last.op = "clear"
    /\ LET k == CHOOSE j \in 1..Len(fired) : fired[j] = play_last.pos
       IN  /\ fire_addrs[k] # {}
           /\ \E a \in Channels \ fire_addrs[k] : dmx_data[a] # 0

-----------------------------------------------------------------------------
(* Properties of playback sessions, under SpecSession *)

Dark == Bytearray(DMX_CHANNELS)

(* the session is paused: pause_playback has run, no resume, stop or play since *)
Paused == current_sequence # 0 /\ ~is_playing /\ audio_player.pause_time > 0

(* this step is a scheduling thread firing, or clearing, an event *)
EventFires == parked' = parked /\ run' = run /\ Len(fired') = Len(fired) + 1
EventClears == parked' = parked /\ run' = run /\ Len(cleared') = Len(cleared) + 1

(* C11: between pause_playback and the matching resume_playback the scheduler
   does not advance: while the session is paused no event fires, no event is
   cleared and no step writes the channel buffer. *)
C11_PausedNoAdvance ==
    [][ (Paused /\ Paused') =>
           (~EventFires /\ ~EventClears /\ dmx_data' = dmx_data) ]_vars

(* resume_playback has resumed the paused audio, and no call came since *)
Resumed ==
    /\ api_last.op = "resume_playback"
    /\ audio_last.op = "resume"
    /\ is_playing
    /\ audio_player.is_playing

(* the loop of the running session is alive, or it ended with every event
   fired and cleared *)
SessionLoopRunning ==
    \/ Alive(Context) /\ run = session
    \/ Alive(parked) /\ parked.run = session
SessionLoopComplete ==
    /\ ppc = "done"
    /\ run = session
    /\ event_index >= Len(events)
    /\ active_events = <<>>

(* C12: after pause_playback followed by resume_playback the scheduling loop
   is still running (unless it had already fired and cleared every event),
   and an event fires only once the audio position, which excludes the time
   spent paused, has reached its time. *)
C12_ResumeInLockstep ==
    [][ /\ Resumed' => (SessionLoopRunning' \/ SessionLoopComplete')
        /\ (EventFires /\ Resumed') =>
              GetPosition(audio_player', now')
                 >= EventTime(ListAt(events', fired'[Len(fired')])) ]_vars

(* seek_sequence has sought in a playing session, and no call came since *)
Sought ==
    /\ api_last.op = "seek_sequence"
    /\ audio_last.op = "seek"
    /\ audio_last.ret = "True"
    /\ is_playing
    /\ audio_player.is_playing

(* C15: seeking to p while a sequence is playing restarts the audio from p and
   makes the scheduler skip every event with time < p: after the seek no
   event with time < p fires, and an event with time >= p fires once the
   position counted from p has reached its time. *)
C15_SeekSkipsEvents ==
    [][ /\ Sought' =>
              /\ music'.state = "playing"
              /\ music'.start = audio_last'.arg
              /\ GetPosition(audio_player', now') >= audio_last'.arg
        /\ (EventFires /\ Sought') =>
              LET event == ListAt(events', fired'[Len(fired')])
              IN  /\ EventTime(event) >= audio_last'.arg
                  /\ GetPosition(audio_player', now') >= EventTime(event) ]_vars

(* C18: at no time are two sequence_playback_loop threads alive: when
   play_sequence starts the loop of a new session, the loop of the session
   before has exited, under any interleaving of the caller and that loop. *)
C18_OneLoopAlive == ~(Alive(Context) /\ Alive(parked))

(* C19: starting a new session stops the previous one, whether it was playing
   or paused: when play_sequence starts the loop of a later session the
   music is restarted for it, and when that loop fires its first event every
   channel the previous session left lit has been zeroed (the buffer is
   dark). *)
C19_NewSessionStopsOld ==
    [][ /\ (session' = session + 1 /\ session >= 1) =>
              music' = [state |-> "playing", start |-> api_args.start_time]
        /\ (EventFires /\ fired = <<>> /\ run = session /\ session >= 2) =>
              dmx_data = Dark ]_vars

(* C20: no channel is left lit after a stop: once stop_playback has returned
   and no scheduling loop is alive any more, all 512 channels are 0. *)
C20_DarkAfterStop ==
    ( /\ api_last.op = "stop_playback"
      /\ apc = "idle"
      /\ ~Alive(Context)
      /\ ~Alive(parked) ) => dmx_data = Dark

-----------------------------------------------------------------------------
(* Properties of the AudioPlayer, under SpecAudio *)

Playing(self) == self.is_playing /\ self.start_time # 0
PlayerPaused(self) == ~self.is_playing /\ self.pause_time > 0

(* C13: across pause/resume pairs on a playing AudioPlayer the position does
   not count the time spent paused: pause freezes the position at its value
   of that moment, the position stays the same while time passes in the
   pause, and right after resume it is the value it had at the pause. *)
C13_PauseExcluded ==
    [][ /\ (audio_last'.op = "pause" /\ Playing(audio_player)) =>
              /\ PlayerPaused(audio_player')
              /\ GetPosition(audio_player', now') = GetPosition(audio_player, now)
              /\ paused_position' = GetPosition(audio_player, now)
        /\ (PlayerPaused(audio_player) /\ audio_player' = audio_player) =>
              GetPosition(audio_player', now') = GetPosition(audio_player, now)
        /\ (audio_last'.op = "resume" /\ PlayerPaused(audio_player)) =>
              /\ Playing(audio_player')
              /\ GetPosition(audio_player', now') = GetPosition(audio_player, now)
              /\ GetPosition(audio_player, now) = paused_position
                    => GetPosition(audio_player', now') = paused_position ]_vars

(* the player has just resumed after a pause that lasted: it reports the
   position of the moment of the pause *)
C13_Witness ==
    /\ audio_last.op = "resume"
    /\ Playing(audio_player)
    /\ audio_player.total_pause_duration > 1
    /\ paused_position > 0
    /\ GetPosition(audio_player, now) = paused_position
    /\ now - audio_player.start_time > paused_position

(* C14: in every state reachable by load, play, pause, resume, stop and seek,
   get_position returns now - start_time - total_pause_duration + seek_offset
   while playing, the position frozen at the moment of the pause while
   paused, and the pending offset when stopped. *)
C14_PositionFormula ==
    [][ (audio_last'.op = "get_position" /\ now' = now) =>
           audio_last'.position =
              IF audio_player.is_playing
              THEN (now - audio_player.start_time
                        - audio_player.total_pause_duration)
                      + audio_player.seek_offset
              ELSE IF PlayerPaused(audio_player) THEN paused_position
              ELSE audio_player.seek_offset ]_vars

(* C16: seek(p) with a loaded song. On a playing player: when it returns
   True the output has restarted at p, start_time is now, seek_offset is p,
   total_pause_duration is 0 and the player is playing; when the restart
   fails it does not return True: it returns False, still playing, the
   offset not moved to p (or the exception of the second play leaves seek,
   which then returns nothing). On a player that is not playing it changes
   seek_offset to p and nothing else. *)
C16_SeekEffect ==
    [][ ( /\ audio_last'.op = "seek"
          /\ now' = now
          /\ audio_player.current_song # "None" ) =>
           LET p == audio_last'.arg
           IN  IF audio_player.is_playing
               THEN /\ audio_last'.ret \in {"True", "False", "raised"}
                    /\ audio_player'.is_playing
                    /\ audio_player'.pause_time = audio_player.pause_time
                    /\ audio_player'.current_song = audio_player.current_song
                    /\ audio_last'.ret = "True" =>
                          /\ music' = [state |-> "playing", start |-> p]
                          /\ audio_player'.start_time = now
                          /\ audio_player'.seek_offset = p
                          /\ audio_player'.total_pause_duration = 0
                    /\ audio_last'.ret = "False" =>
                          /\ music'.state = "playing"
                          /\ audio_player'.seek_offset = audio_player.seek_offset
                    /\ audio_last'.ret = "raised" =>
                          audio_player' = audio_player
               ELSE /\ audio_last'.ret = "True"
                    /\ audio_player' = [audio_player EXCEPT !.seek_offset = p]
                    /\ music' = music ]_vars

(* a seek to 0.2 s on a playing player has just returned True, some time
   after the play *)
C16_Witness ==
    /\ audio_last.op = "seek"
    /\ audio_last.ret = "True"
    /\ audio_last.arg = 2
    /\ audio_player.is_playing
    /\ audio_player.start_time = now
    /\ now > 2
    /\ music = [state |-> "playing", start |-> 2]

(* C17: after stop(), from any state, is_playing is false and start_time,
   pause_time, total_pause_duration and seek_offset are all 0, so
   get_position returns 0; a second stop changes nothing (stop applied to
   the state stop leaves gives that state back). *)
C17_StopResets ==
    [][ (audio_last'.op = "stop" /\ now' = now) =>
           /\ ~audio_player'.is_playing
           /\ audio_player'.start_time = 0
           /\ audio_player'.pause_time = 0
           /\ audio_player'.total_pause_duration = 0
           /\ audio_player'.seek_offset = 0
           /\ GetPosition(audio_player', now') = 0
           /\ music'.state = "stopped"
           /\ Stop(audio_player', music').player = audio_player'
           /\ Stop(audio_player', music').music = music' ]_vars

(* stop has just run on a player whose music had been started at 0.2 s *)
C17_Witness ==
    /\ audio_last.op = "stop"
    /\ audio_player =
          [NewAudioPlayer EXCEPT !.current_song = SongFile]
    /\ music = [state |-> "stopped", start |-> 2]
    /\ now > 2

-----------------------------------------------------------------------------
(* Properties of the start of a session, under SpecSession *)

(* get_playback_status()['is_playing'] *)
get_playback_status == is_playing /\ current_sequence # 0

(* this step is play_sequence finding that the audio file does not load *)
LoadFails ==
    /\ apc = "play_sequence_start"
    /\ audio_last'.op = "load_song"
    /\ audio_last'.ret = "False"

(* C21: when the audio file fails to load in play_sequence the start is
   aborted with no partial state: no audio plays, no scheduling loop is
   started, and the session is not left marked as playing (is_playing is
   false and the status query reports not playing). *)
C21_LoadFailureAborts ==
    [][ LoadFails =>
          /\ music'.state # "playing"
          /\ session' = session /\ parked' = parked /\ ppc' = ppc
          /\ ~is_playing'
          /\ ~get_playback_status' ]_vars

-----------------------------------------------------------------------------
(* Properties of the playlist cursor and the trigger lock, under SpecTrigger *)

(* one playlist is active, in cycle mode (random FALSE) or in shuffle mode
   (random TRUE), and it has sequences *)
OnePlaylist(random) ==
    /\ Len(active_playlists) = 1
    /\ active_playlists[1].random_mode = random
    /\ active_playlists[1].sequences # <<>>

PlaylistOne == active_playlists[1].sequences

(* C22: with one active cycle-mode playlist whose id list has n entries and
   does not change, the k-th lock-acquiring trigger selects ids[(k-1) mod n];
   for [A,B,C] four consecutive triggers select A, B, C, A. *)
C22_CycleOrder ==
    OnePlaylist(FALSE) =>
        \A k \in 1..Len(selected) :
            selected[k] = ListAt(PlaylistOne, (k - 1) % Len(PlaylistOne))

(* four triggers on the cycle playlist [2, 3, 4] have selected 2, 3, 4, 2 *)
C22_Witness ==
    /\ OnePlaylist(FALSE)
    /\ PlaylistOne = <<2, 3, 4>>
    /\ selected = <<2, 3, 4, 2>>

(* the pass the k-th selection belongs to, for a playlist of n ids *)
Pass(k, n) == (k - 1) \div n

(* C23: with one active shuffle-mode playlist of n distinct ids that does not
   change, every pass of n consecutive lock-acquiring triggers selects each
   id exactly once: no id is selected a second time before all n ids have
   been selected. *)
C23_ShuffleExhausts ==
    OnePlaylist(TRUE) =>
        /\ \A k \in 1..Len(selected) : selected[k] \in ToSet(PlaylistOne)
        /\ \A j, k \in 1..Len(selected) :
              (j < k /\ Pass(j, Len(PlaylistOne)) = Pass(k, Len(PlaylistOne)))
                 => selected[j] # selected[k]

(* two full passes over the shuffle playlist [3, 2], in two different orders *)
C23_Witness ==
    /\ OnePlaylist(TRUE)
    /\ PlaylistOne = <<3, 2>>
    /\ selected = <<3, 2, 2, 3>>

(* this step is a call of trigger_sequence_playback *)
TriggerComes == trigger_last'.calls = trigger_last.calls + 1

(* C24: a trigger_sequence_playback call made while playback_lock is held by
   another trigger returns without starting playback and without changing
   current_playlist_index, current_sequence_index or
   shuffled_sequence_order. *)
C24_HeldTriggerDropped ==
    [][ (TriggerComes /\ playback_lock = "held") =>
          /\ trigger_last'.op = "dropped"
          /\ current_playlist_index' = current_playlist_index
          /\ current_sequence_index' = current_sequence_index
          /\ shuffled_sequence_order' = shuffled_sequence_order
          /\ selected' = selected
          /\ playback_lock' = playback_lock /\ tpc' = tpc
          /\ apc' = apc /\ api_args' = api_args
          /\ is_playing' = is_playing
          /\ current_sequence' = current_sequence
          /\ audio_player' = audio_player /\ music' = music
          /\ session' = session /\ parked' = parked /\ ppc' = ppc ]_vars

(* a trigger has just been dropped while the trigger that selected the
   first sequence of a playlist of several is inside play_sequence *)
C24_Witness ==
    /\ trigger_last.op = "dropped"
    /\ playback_lock = "held"
    /\ tpc = "play_sequence"
    /\ apc = "play_sequence_start"
    /\ Len(selected) = 1
    /\ current_sequence_index = 1

-----------------------------------------------------------------------------
(* Properties of execute_dmx_event, under SpecPlayback *)

(* this step fires the event at event_index, and execute_dmx_event returns *)
Fires == ppc = "fire" /\ play_last' = Step("fire", event_index)

NextEvent == ListAt(events, event_index)

(* the event goes to a patched fixture *)
Patched(event) == Get(event, "device_id", 0) \in DOMAIN PatchedDevices

(* round(v * 255 / 100), a half going upwards *)
Rounded(v) == (2 * v * 255 + 100) \div 200

(* C25: a dimmer event with value v in 0..100 writes round(v*255/100) to the
   fixture's dimmer channel, for every integer v in that range (0 gives 0,
   50 gives 128, 100 gives 255). *)
C25_DimmerRounded ==
    [][ ( /\ Fires
          /\ NextEvent.type = "dimmer"
          /\ Patched(NextEvent)
          /\ NextEvent.value \in 0..100 ) =>
            ByteAt(dmx_data', DimmerAddress(NextEvent.device_id) - 1)
               = Rounded(NextEvent.value) ]_vars

(* the payload is a string of the form #RRGGBB *)
IsHexColor(event) ==
    /\ "color" \in DOMAIN event
    /\ IsStr(event.color)
    /\ Len(event.color.hex) = 7
    /\ event.color.hex[1] = "#"
    /\ \A i \in 2..7 : event.color.hex[i] \in DOMAIN HexDigit

(* the byte two hex digits at positions k and k + 1 of the string stand for *)
HexByte(event, k) ==
    16 * HexDigit[event.color.hex[k]] + HexDigit[event.color.hex[k + 1]]

(* what #RRGGBB puts on a channel of each colour type *)
HexChannelValue(event, channel_type) ==
    CASE channel_type = "red_channel" -> HexByte(event, 2)
      [] channel_type = "green_channel" -> HexByte(event, 4)
      [] channel_type = "blue_channel" -> HexByte(event, 6)
      [] channel_type = "white_channel" -> 0

(* C26: a color event whose payload is a hex string #RRGGBB writes the byte
   values RR, GG and BB to the fixture's red, green and blue channels and 0
   to its white channel; "#FF8000" gives r=255, g=128, b=0, w=0. *)
C26_HexColor ==
    [][ ( /\ Fires
          /\ NextEvent.type = "color"
          /\ Patched(NextEvent)
          /\ IsHexColor(NextEvent) ) =>
            LET pd == PatchedDevices[NextEvent.device_id]
            IN  /\ \A i \in 1..Len(pd.channels) :
                      pd.channels[i] \in DOMAIN ColorKey =>
                          dmx_data'[pd.start_address + i - 1]
                             = HexChannelValue(NextEvent, pd.channels[i])
                /\ NextEvent.color.hex = <<"#", "F", "F", "8", "0", "0", "0">> =>
                      SubSeq(dmx_data', 3, 6) = <<255, 128, 0, 0>> ]_vars

(* "#0a7F10" has just fired on the fixture whose white channel the colour
   event before it, still active, had set to 40 *)
C26_Witness ==
    /\ play_last = Step("fire", 1)
    /\ fired = <<0, 1>> /\ cleared = <<>>
    /\ Get(events[1], "color", <<>>) = [r |-> 10, g |-> 20, b |-> 30, w |-> 40]
    /\ IsHexColor(events[2])
    /\ SubSeq(dmx_data, 3, 6) = <<10, 127, 16, 0>>

(* the indices of the events the run is to fire: those the skip loop left *)
ToFire == {i \in Indices : ~BeforeOffset(ListAt(events, i), start_time_offset)}

(* the run has an event on a fixture without a patch record *)
HasUnpatched == \E i \in 1..Len(sequence) : ~Patched(sequence[i])

(* C27: an event whose fixture id has no patch record changes no channel
   when it fires or clears, and does not abort playback: the scheduling loop
   goes on to fire and clear all later events and terminates normally. *)
C27_UnpatchedSkipped ==
    [][ /\ ( /\ ppc = "fire"
             /\ event_index < Len(events)
             /\ Due(NextEvent)
             /\ ~Patched(NextEvent) ) =>
                /\ dmx_data' = dmx_data
                /\ play_last' = Step("fire", event_index)
                /\ ppc' = "fire"
                /\ event_index' = event_index + 1
                /\ active_events' = Append(active_events, event_index)
        /\ ( /\ ppc = "clear"
             /\ clear_pos < Len(active_events)
             /\ play_last' = Step("clear", ListAt(active_events, clear_pos))
             /\ ~Patched(ListAt(events, ListAt(active_events, clear_pos))) ) =>
                dmx_data' = dmx_data
        /\ (HasUnpatched /\ ppc' = "done") =>
                /\ Range(fired') = ToFire'
                /\ Range(cleared') = ToFire'
                /\ active_events' = <<>> ]_vars

(* the loop has ended after firing and clearing an event on the unpatched
   fixture 9 and then a dimmer event on fixture 1 *)
C27_Witness ==
    /\ ppc = "done"
    /\ Len(events) = 2
    /\ ~Patched(events[1]) /\ DictEq(events[2], EventPool[1])
    /\ fired = <<0, 1>>
    /\ cleared = <<0, 1>>

-----------------------------------------------------------------------------
(* Properties of the controller's output loop, under SpecOutput *)

(* the _output_loop threads that have not returned *)
LiveLoops == {t \in 1..Len(output_loops) : output_loops[t] # "done"}

(* stop was the last call to return *)
Stopped == ctl_last.op = "stop" /\ dpc = "idle"

(* C28: for any sequence of DMXController.start and stop calls: start while
   already running creates no second output loop, and once stop has returned
   the output loop is no longer running and writes no further frame, so at
   most one output loop is ever alive. *)
C28_OneOutputLoop ==
    [][ /\ (ctl_last'.op = "start" /\ ctl_last' # ctl_last /\ running) =>
              output_loops' = output_loops
        /\ Stopped' => LiveLoops' = {}
        /\ Stopped => wire' = wire
        /\ Cardinality(LiveLoops') <= 1 ]_vars

(* this step is a call on the channel buffer, recorded in last *)
BufferCall(op) == last'.op = op /\ last' # last

(* C29: if the serial device is unavailable at construction, start() leaves
   the transmitter stopped with no output loop and no frame is ever written,
   while set_channel, get_channel, set_channels and clear_all behave exactly
   as with a device present: each is the same function of the buffer and of
   its arguments whether or not there is a port. *)
C29_HeadlessFallback ==
    [][ /\ serial_port = "None" =>
              /\ ~running' /\ thread' = 0 /\ output_loops' = <<>>
              /\ ~serial_open' /\ wire' = <<>>
        /\ BufferCall("set_channel") =>
              dmx_data' = StoreChannel(dmx_data, last'.channel, last'.value)
        /\ BufferCall("get_channel") =>
              /\ ret' = ReadChannel(dmx_data, last'.channel)
              /\ dmx_data' = dmx_data
        /\ (BufferCall("set_channels") /\ cpc = "set_channels") =>
              dmx_data' = StoreChannel(dmx_data, last'.channel, last'.value)
        /\ BufferCall("clear_all") => dmx_data' = Bytearray(DMX_CHANNELS) ]_vars

(* without a port: start has returned, nothing runs, and a channel that was
   set reads back *)
C29_Witness ==
    /\ serial_port = "None"
    /\ ctl_last.op = "start"
    /\ ~running /\ output_loops = <<>>
    /\ last = Call("get_channel", DMX_CHANNELS, 200, FALSE)

-----------------------------------------------------------------------------
(* Termination of sequence_playback_loop, under SpecPlayback, where playback
   is neither stopped nor paused *)

(* C30: if playback is neither stopped nor paused, sequence_playback_loop
   terminates: every event with time >= the start offset eventually fires,
   every fired event is eventually cleared, and the loop exits exactly when
   the event list is exhausted and the active set is empty. As a property of
   the states in which the thread has ended: the list is exhausted, the
   active set is empty, every such event has fired and has been cleared. *)
C30_LoopCompletes ==
    (is_playing /\ ~Alive(Context)) =>
        /\ event_index = Len(events)
        /\ active_events = <<>>
        /\ Range(fired) = ToFire
        /\ Range(cleared) = ToFire

-----------------------------------------------------------------------------
(* Properties of the button handler, under SpecButton *)

(* the handler starts a trigger thread *)
Launches == Len(launches') = Len(launches) + 1

(* the second sample finds the button down before the cooldown is over *)
InCooldown ==
    /\ bpc = "confirm"
    /\ pin = "LOW"
    /\ button_time - last_trigger_time < COOLDOWN

(* C33: the handler starts a trigger thread only if the time it read at the
   press is at least 2 s after the time it read at the press of the trigger
   before, which last_trigger_time holds: the times of any two triggers are
   at least 2 s apart, and a press that comes before the cooldown is over
   starts no thread and leaves last_trigger_time as it is *)
C33_Cooldown ==
    /\ [](\A i, j \in 1..Len(launches) :
            i < j => launches[j].time - launches[i].time >= COOLDOWN)
    /\ [][/\ Launches => /\ button_time - last_trigger_time >= COOLDOWN
                         /\ last_trigger_time' = button_time
          /\ InCooldown => /\ launches' = launches
                           /\ last_trigger_time' = last_trigger_time]_vars

(* two triggers exactly 2 s apart, and between their presses a press that
   started none *)
C33_Witness ==
    /\ Len(launches) = 2
    /\ launches[2].time - launches[1].time = COOLDOWN
    /\ launches[2].press > launches[1].press + 1

(* C34: no press of the button starts more than one trigger thread, however
   long the button is held: each thread started belongs to a press of its
   own, so the input has gone high and low again in between; and a press
   that is over at the second sample starts none *)
C34_OnePerPress ==
    /\ [](\A i, j \in 1..Len(launches) :
            i < j => launches[i].press < launches[j].press)
    /\ [][bpc = "confirm" /\ pin = "HIGH" => launches' = launches]_vars

(* a press has started a trigger and the button is still held, for longer
   than the cooldown *)
C34_Witness ==
    /\ bpc = "held"
    /\ pin = "LOW"
    /\ Len(launches) = 1
    /\ launches[1].press = presses
    /\ button_clock - last_trigger_time > COOLDOWN

-----------------------------------------------------------------------------
(* Properties of the callers of play_sequence and stop_playback, under
   SpecCallers *)

(* the button's trigger thread is inside play_sequence *)
TriggerInPlaySequence == tpc = "play_sequence" /\ apc # "idle"

(* C31: play_sequence and stop_playback are never run by two callers at
   once: while the trigger thread of a button press is inside play_sequence,
   no request thread is inside stop_playback *)
C31_BodiesExclusive == ~(TriggerInPlaySequence /\ hpc = "stop_playback")

-----------------------------------------------------------------------------
(* Properties of the playlist cursor over several playlists, under
   SpecTrigger *)

(* a trigger comes, gets the lock and finds playlists *)
TriggerRuns ==
    /\ TriggerComes
    /\ trigger_last'.op \notin {"dropped", "no_app", "no_playlists"}

(* the step selects a sequence *)
Selects == Len(selected') = Len(selected) + 1

(* the playlist the cursor is at, and its index from 0 *)
AtIndex == Wrapped(current_playlist_index, active_playlists)
AtPlaylist == ListAt(active_playlists, AtIndex)

(* the last trigger selected the last sequence of its playlist *)
JustExhausted ==
    /\ selected # <<>>
    /\ current_sequence_index = 0
    /\ trigger_last.op \in {"started", "failed", "not_found"}

(* the step selects the first sequence of the playlist the cursor is at:
   the first of the list in cycle mode, the first of a new permutation of
   the list in random mode *)
SelectsFirst ==
    /\ Selects
    /\ IF AtPlaylist.random_mode
       THEN /\ selected'[Len(selected')] \in ToSet(AtPlaylist.sequences)
            /\ Len(AtPlaylist.sequences) > 1 =>
                 /\ shuffled_sequence_order' \in Shuffles(AtPlaylist.sequences)
                 /\ selected'[Len(selected')] = shuffled_sequence_order'[1]
                 /\ current_sequence_index' = 1
       ELSE selected'[Len(selected')] = AtPlaylist.sequences[1]

(* the step that selects the last sequence of playlist i, and no other,
   moves the cursor to the start of playlist (i + 1) mod m, and clears the
   permutation of a playlist in random mode *)
ExhaustedMovesOn ==
    TriggerRuns /\ Selects =>
        IF current_sequence_index' = 0
        THEN /\ current_playlist_index' = (AtIndex + 1) % Len(active_playlists)
             /\ AtPlaylist.random_mode => shuffled_sequence_order' = <<>>
        ELSE current_playlist_index' = AtIndex

(* C32 as stated: after the last sequence of playlist i was selected, the
   next trigger that runs selects the first sequence of playlist
   (i + 1) mod m *)
C32_NextPlaylistSelected ==
    [][/\ ExhaustedMovesOn
       /\ JustExhausted /\ TriggerRuns => SelectsFirst]_vars

(* C32 amended: after the last sequence of playlist i was selected, the next
   trigger that runs selects the first sequence of playlist (i + 1) mod m if
   that playlist has sequences; if it has none, the trigger selects nothing
   and moves the cursor to the start of the playlist after it *)
C32_NextPlaylistUnlessEmpty ==
    [][/\ ExhaustedMovesOn
       /\ JustExhausted /\ TriggerRuns =>
            IF AtPlaylist.sequences # <<>>
            THEN SelectsFirst
            ELSE /\ selected' = selected
                 /\ current_playlist_index' =
                        (AtIndex + 1) % Len(active_playlists)
                 /\ current_sequence_index' = 0
                 /\ shuffled_sequence_order' = <<>>]_vars

(* both sequences of the first playlist were selected, and the trigger after
   them selected the first of a permutation of the second playlist *)
C32_Witness ==
    /\ active_playlists = <<Playlist(<<3, 2>>, FALSE), Playlist(<<3, 2>>, TRUE)>>
    /\ selected = <<3, 2, 2>>
    /\ current_playlist_index = 1
    /\ current_sequence_index = 1
    /\ shuffled_sequence_order = <<2, 3>>

-----------------------------------------------------------------------------
(* Properties of the playback lock, under SpecTriggerFair *)

(* C35: a trigger_sequence_playback call that has got playback_lock gives it
   back before it returns, whether it selected nothing, found no sequence,
   started play_sequence or saw it raise: the lock is free whenever no call
   is running, and a lock that is held becomes free *)
C35_LockReleased ==
    /\ [](tpc = "idle" => playback_lock = "free")
    /\ (playback_lock = "held") ~> (playback_lock = "free")

(* play_sequence raised in a call that held the lock; the call is over and
   the lock is free *)
C35_Witness ==
    /\ selected # <<>>
    /\ trigger_last.op = "failed"
    /\ playback_lock = "free"
    /\ tpc = "idle"

-----------------------------------------------------------------------------
(* Properties of malformed events and of overlapping events, under
   SpecPlayback *)

(* a color event whose string is not #RRGGBB, or a position event without a
   {pan, tilt} mapping *)
Malformed(event) ==
    \/ /\ Get(event, "type", "None") = "color"
       /\ "color" \in DOMAIN event
       /\ IsStr(event.color)
       /\ ~IsHexColor(event)
    \/ /\ Get(event, "type", "None") = "position"
       /\ "value" \notin DOMAIN event

(* the scheduling thread has died of an exception with events not yet fired
   or not yet cleared *)
LoopStopped ==
    /\ ppc = "raised"
    /\ event_index < Len(events) \/ active_events # <<>>

(* C36: a malformed event does not stop the scheduling loop: the thread never
   dies at such an event, leaving later events unfired and active events
   uncleared *)
C36_MalformedTolerated ==
    ~(LoopStopped /\ Malformed(ListAt(events, event_index)))

(* the loop has ended on its own: every event was fired and cleared *)
EndedOnItsOwn ==
    /\ ppc = "done"
    /\ fired # <<>>
    /\ Len(cleared) = Len(fired)
    /\ event_index = Len(events)
    /\ active_events = <<>>

(* C37: once the scheduling loop has ended on its own, is_playing is false
   and get_playback_status reports is_playing false *)
C37_EndStopsPlaying == EndedOnItsOwn => ~is_playing /\ ~get_playback_status

(* the k-th firing is the last one that wrote address a *)
LastWriter(k, a) ==
    /\ a \in fire_addrs[k]
    /\ \A later \in (k + 1)..Len(fired) : a \notin fire_addrs[later]

(* what the firing of the event left on address a *)
FiredValue(event, a) == ReadChannel(ApplyCalls(Dark, ExecuteCalls(event)), a)

(* the two events are active at the same time for a while *)
Overlap(e1, e2) ==
    /\ EventTime(e2) < EventTime(e1) + EventDuration(e1)
    /\ EventTime(e1) < EventTime(e2) + EventDuration(e2)

(* C38: when two events on the same channels overlap in time, a channel keeps
   the value of the one that wrote it last for as long as that event is active
   (elapsed < time + duration), also once the other has ended and been
   cleared *)
C38_OverlapKept ==
    \A j, k \in 1..Len(fired) : \A a \in fire_addrs[j] \cap fire_addrs[k] :
        LET other == ListAt(events, fired[j])
            event == ListAt(events, fired[k])
        IN  /\ j < k
            /\ Overlap(other, event)
            /\ LastWriter(k, a)
            /\ ~Expired(event, current_time)
            => ReadChannel(dmx_data, a) = FiredValue(event, a)

-----------------------------------------------------------------------------
(* Properties of seek and get_position together, under SpecAudio *)

(* C39: when seek(p) has returned True on a player with a loaded song,
   playing, paused or stopped, a get_position made before any time passes
   returns p *)
C39_SeekThenPosition ==
    [][ ( /\ audio_last'.op = "seek"
          /\ audio_last'.ret = "True"
          /\ now' = now ) =>
           GetPosition(audio_player', now') = audio_last'.arg ]_vars

-----------------------------------------------------------------------------
(* Properties of the cursor while the playlists change, under SpecCursor *)

(* C40: whatever the playlists have been changed to, every subscript the
   next trigger evaluates is within the list it indexes, and the sequence a
   trigger selects is one of the ids of the playlist it read *)
C40_CursorInRange ==
    /\ [](\A u \in Subscripts(Cursor, active_playlists) :
             0 <= u[2] /\ u[2] < u[1])
    /\ [][TriggerRuns /\ Selects =>
             selected'[Len(selected')] \in ToSet(AtPlaylist.sequences)]_vars

(* two triggers took 3 and 4 from a playlist of three, the playlist was cut
   to one sequence, and the next trigger selected that one *)
C40_Witness ==
    /\ selected = <<3, 4, 3>>
    /\ active_playlists = <<Playlist(<<3>>, FALSE)>>
    /\ current_sequence_index = 0

====
